---- MODULE Spec2Model ----
(***************************************************************************)
(* Model of the Binance technical-indicator screener.                      *)
(*                                                                         *)
(*   scripts/lib/indicators.js   retrieval orchestrator (getAllUSDTPairs,  *)
(*                               fetchKlines, fetchKlinesBatch,            *)
(*                               fetchTicker24hr, fetchTickerBatch) and    *)
(*                               getLatestIndicators                       *)
(*   scripts/lib/filters.js      matchesFilters, calculateScore,           *)
(*                               parseFiltersFromArgs                      *)
(*   scripts/binance-screener.js parseArgs, main, scanSymbols              *)
(*                                                                         *)
(* Every async function is cut at its await points: one action is one      *)
(* synchronous segment of the JavaScript event loop.                       *)
(*                                                                         *)
(* Numbers that are floats in the program (RSI, prices, bands, thresholds) *)
(* are held in tenths; counts and periods are held in units.               *)
(***************************************************************************)
EXTENDS Integers, Sequences, FiniteSets, TLC

VARIABLES
    argv,             \* process.argv.slice(2)
    mpc,              \* main: init / scanning / done / exit0 / exit1
    spc,              \* scanSymbols: idle / listing / tickers / klines / returned
    args,             \* main: the record parseArgs returned
    netRequests,      \* HTTP requests issued so far
    report,           \* the ScanReport returned by scanSymbols
    emitted,          \* TRUE once main has printed the report
    tsymbols,         \* fetchTickerBatch: the `symbols` argument
    tickers,          \* fetchTickerBatch: the Map, as its entries in insertion order
    ti,               \* fetchTickerBatch: start index of the current batch
    tpc,              \* fetchTickerBatch: idle / fetching / batchDelay / returned
    tInFlight,        \* ticker requests issued and not yet answered
    tAnswers,         \* what the exchange answered to each ticker request of the call
    symbols,          \* fetchKlinesBatch: the `symbols` argument
    progressCallback, \* fetchKlinesBatch: TRUE iff a progress observer was passed
    results,          \* fetchKlinesBatch: the Map, as its entries in insertion order
    processed,        \* fetchKlinesBatch: `processed`
    i,                \* fetchKlinesBatch: start index of the current batch
    k,                \* fetchKlinesBatch: index of the current symbol inside the batch
    kpc,              \* fetchKlinesBatch: idle / fetching / pacing / batchDelay / returned / rejected
    inFlight,         \* candle requests issued and not yet answered
    trace,            \* observable events of the orchestrator, in order
    call,             \* a library function called on its own: its name and arguments
    ret               \* what that call returned or threw

mainVars == <<argv, mpc, spc, args, netRequests, report, emitted>>

\* mainVars without the request counter
mainRest == <<argv, mpc, spc, args, report, emitted>>

tickerVars == <<tsymbols, tickers, ti, tpc, tInFlight, tAnswers>>

batchVars == <<symbols, progressCallback, results, processed, i, k, kpc, inFlight, trace>>

libVars == <<call, ret>>

vars == <<argv, mpc, spc, args, netRequests, report, emitted,
          tsymbols, tickers, ti, tpc, tInFlight, tAnswers,
          symbols, progressCallback, results, processed, i, k, kpc, inFlight, trace,
          call, ret>>

----------------------------------------------------------------------------
(* Program constants                                                       *)

BATCH_SIZE == 20

BATCH_DELAY == 1000

REQUEST_DELAY == 100

INTERVALS == {"1m", "3m", "5m", "15m", "30m", "1h", "2h", "4h", "6h", "8h", "12h",
              "1d", "3d", "1w", "1M"}

----------------------------------------------------------------------------
(* Bounds of the model                                                     *)

\* longest symbol list handed to fetchKlinesBatch on its own
MaxSymbols == 41

\* most failed fetches in a run over a list longer than FullPatternLen
MaxFailures == 1

\* lists up to this length are run under every pattern of fetch outcomes
FullPatternLen == 3

\* most symbols the exchange lists
MaxUniverse == 3

----------------------------------------------------------------------------
(* JavaScript values                                                       *)

Min(a, b) == IF a < b THEN a ELSE b

Undefined == [t |-> "undefined", v |-> 0, s |-> ""]

NaN == [t |-> "nan", v |-> 0, s |-> ""]

Num(n) == [t |-> "number", v |-> n, s |-> ""]

Str(x) == [t |-> "string", v |-> 0, s |-> x]

True == [t |-> "boolean", v |-> 1, s |-> ""]

IsNumber(x) == x.t = "number"

\* the relational operators: FALSE as soon as an operand is NaN or undefined
JsLt(a, b) == IsNumber(a) /\ IsNumber(b) /\ a.v < b.v

JsGt(a, b) == IsNumber(a) /\ IsNumber(b) /\ a.v > b.v

JsLe(a, b) == IsNumber(a) /\ IsNumber(b) /\ a.v <= b.v

JsGe(a, b) == IsNumber(a) /\ IsNumber(b) /\ a.v >= b.v

\* `x > 0` for a value that may be NaN
JsPositive(x) == IsNumber(x) /\ x.v > 0

----------------------------------------------------------------------------
(* Command-line texts and the number parsers                               *)

\* the characters of the value texts that occur on the command lines
Spelling(text) ==
    CASE text = "30"    -> <<"3", "0">>
      [] text = "28.5"  -> <<"2", "8", ".", "5">>
      [] text = "abc"   -> <<"a", "b", "c">>
      [] text = "49"    -> <<"4", "9">>
      [] text = "50"    -> <<"5", "0">>
      [] text = "99"    -> <<"9", "9">>
      [] text = "100"   -> <<"1", "0", "0">>
      [] text = "1000"  -> <<"1", "0", "0", "0">>
      [] text = "1001"  -> <<"1", "0", "0", "1">>
      [] text = "0"     -> <<"0">>
      [] text = "1"     -> <<"1">>
      [] text = "2"     -> <<"2">>
      [] text = "20"    -> <<"2", "0">>
      [] text = "25"    -> <<"2", "5">>
      [] text = "20,40" -> <<"2", "0", ",", "4", "0">>
      [] text = "40"    -> <<"4", "0">>
      [] OTHER          -> <<"?">>

DigitChars == <<"0", "1", "2", "3", "4", "5", "6", "7", "8", "9">>

IsDigit(c) == \E d \in 1..10 : DigitChars[d] = c

DigitValue(c) == (CHOOSE d \in 1..10 : DigitChars[d] = c) - 1

\* length of the longest prefix of cs made of digits
RECURSIVE DigitPrefix(_)
DigitPrefix(cs) ==
    IF cs = <<>> \/ ~IsDigit(Head(cs)) THEN 0 ELSE 1 + DigitPrefix(Tail(cs))

RECURSIVE DigitsValue(_)
DigitsValue(cs) ==
    IF cs = <<>> THEN 0 ELSE 10 * DigitsValue(SubSeq(cs, 1, Len(cs) - 1)) + DigitValue(cs[Len(cs)])

\* parseInt(text): the leading digits, NaN when there are none (or no text at all)
ParseInt(x) ==
    IF x.t # "string" THEN NaN
    ELSE LET cs == Spelling(x.s)
             n == DigitPrefix(cs)
         IN IF n = 0 THEN NaN ELSE Num(DigitsValue(SubSeq(cs, 1, n)))

\* the value, in tenths, of the longest numeric prefix `digits[.digits]` of cs
FloatPrefix(cs) ==
    LET n == DigitPrefix(cs)
        rest == SubSeq(cs, n + 1, Len(cs))
        frac == IF rest # <<>> /\ Head(rest) = "." THEN DigitPrefix(Tail(rest)) ELSE 0
        whole == DigitsValue(SubSeq(cs, 1, n))
        tenth == IF frac > 0 THEN DigitValue(rest[2]) ELSE 0
        used == IF frac > 0 THEN n + 1 + frac ELSE n
    IN [ok |-> n > 0 \/ frac > 0, value |-> 10 * whole + tenth, used |-> used]

\* parseFloat(text), in tenths: the longest numeric prefix, NaN when there is none
ParseFloat(x) ==
    IF x.t # "string" THEN NaN
    ELSE LET f == FloatPrefix(Spelling(x.s))
         IN IF f.ok THEN Num(f.value) ELSE NaN

\* Number(text), in tenths: the whole text must be numeric; the empty text is 0
NumberOf(cs) ==
    IF cs = <<>> THEN Num(0)
    ELSE LET f == FloatPrefix(cs)
         IN IF f.ok /\ f.used = Len(cs) THEN Num(f.value) ELSE NaN

\* text.split(',')
RECURSIVE SplitComma(_)
SplitComma(cs) ==
    IF \A p \in 1..Len(cs) : cs[p] # ","
    THEN <<cs>>
    ELSE LET p == CHOOSE q \in 1..Len(cs) : cs[q] = "," /\ \A r \in 1..(q - 1) : cs[r] # ","
         IN <<SubSeq(cs, 1, p - 1)>> \o SplitComma(SubSeq(cs, p + 1, Len(cs)))

----------------------------------------------------------------------------
(* parseArgs                                                               *)

\* `parsed` before the loop; a field that was never assigned reads as undefined
DefaultArgs ==
    [exit |-> "", interval |-> Str("4h"), limit |-> Num(100), output |-> Str("json"),
     maxResults |-> Num(0), topVolume |-> Num(0),
     rsiBelow |-> Undefined, rsiAbove |-> Undefined, rsiBetween |-> Undefined,
     macdBullish |-> Undefined, macdBearish |-> Undefined,
     macdHistogramPositive |-> Undefined,
     maGoldenCross |-> Undefined, maDeathCross |-> Undefined,
     maAbove |-> Undefined, maBelow |-> Undefined,
     bbLower |-> Undefined, bbUpper |-> Undefined, bdBelowLower |-> Undefined,
     bbAboveUpper |-> Undefined, bbNarrow |-> Undefined, bbWide |-> Undefined,
     priceMin |-> Undefined, priceMax |-> Undefined]

\* the field a case of the switch assigns
OptionField(arg) ==
    CASE arg \in {"-i", "--interval"}        -> "interval"
      [] arg \in {"-n", "--limit"}           -> "limit"
      [] arg = "--rsi-below"                 -> "rsiBelow"
      [] arg = "--rsi-above"                 -> "rsiAbove"
      [] arg = "--rsi-between"               -> "rsiBetween"
      [] arg = "--macd-bullish"              -> "macdBullish"
      [] arg = "--macd-bearish"              -> "macdBearish"
      [] arg = "--macd-histogram-positive"   -> "macdHistogramPositive"
      [] arg = "--ma-golden-cross"           -> "maGoldenCross"
      [] arg = "--ma-death-cross"            -> "maDeathCross"
      [] arg = "--ma-above"                  -> "maAbove"
      [] arg = "--ma-below"                  -> "maBelow"
      [] arg = "--bb-lower"                  -> "bbLower"
      [] arg = "--bb-upper"                  -> "bbUpper"
      [] arg = "--bb-below-lower"            -> "bdBelowLower"
      [] arg = "--bb-above-upper"            -> "bbAboveUpper"
      [] arg = "--bb-narrow"                 -> "bbNarrow"
      [] arg = "--bb-wide"                   -> "bbWide"
      [] arg = "--price-min"                 -> "priceMin"
      [] arg = "--price-max"                 -> "priceMax"
      [] arg = "--max-results"               -> "maxResults"
      [] arg = "--top-volume"                -> "topVolume"
      [] arg \in {"-o", "--output"}          -> "output"
      [] OTHER                               -> ""

\* what the case does with the option: store `true`, store args[++i] as text,
\* store parseInt(args[++i]), store parseFloat(args[++i]), show the help, or default
OptionKind(arg) ==
    CASE arg \in {"--macd-bullish", "--macd-bearish", "--ma-golden-cross",
                  "--ma-death-cross", "--bb-lower", "--bb-upper", "--bb-below-lower",
                  "--bb-above-upper", "--bb-narrow", "--bb-wide"}       -> "flag"
      [] arg \in {"-n", "--limit", "--max-results", "--top-volume"}     -> "int"
      [] arg \in {"--rsi-below", "--rsi-above"}                         -> "float"
      [] arg \in {"-i", "--interval", "--rsi-between", "--macd-histogram-positive",
                  "--ma-above", "--ma-below", "--price-min", "--price-max",
                  "-o", "--output"}                                     -> "text"
      [] arg \in {"--help", "-h"}                                       -> "help"
      [] OTHER                                                          -> "default"

\* arg.startsWith('-') for the texts that reach the default case
StartsWithDash(arg) == arg \in {"--output-file", "--bogus"}

\* args[pos] (1-based), undefined past the end
ArgAt(av, pos) == IF pos <= Len(av) THEN Str(av[pos]) ELSE Undefined

\* the loop of parseArgs from position pos on; exit is "" on a normal return,
\* "0" after --help and "1" after an unknown option
RECURSIVE ParseFrom(_, _, _)
ParseFrom(av, pos, parsed) ==
    IF pos > Len(av) THEN parsed
    ELSE LET arg == av[pos]
             kind == OptionKind(arg)
             field == OptionField(arg)
             next == ArgAt(av, pos + 1)
         IN CASE kind = "flag"  -> ParseFrom(av, pos + 1, [parsed EXCEPT ![field] = True])
              [] kind = "text"  -> ParseFrom(av, pos + 2, [parsed EXCEPT ![field] = next])
              [] kind = "int"   -> ParseFrom(av, pos + 2, [parsed EXCEPT ![field] = ParseInt(next)])
              [] kind = "float" -> ParseFrom(av, pos + 2, [parsed EXCEPT ![field] = ParseFloat(next)])
              [] kind = "help"  -> [parsed EXCEPT !.exit = "0"]
              [] OTHER          -> IF StartsWithDash(arg)
                                   THEN [parsed EXCEPT !.exit = "1"]
                                   ELSE ParseFrom(av, pos + 1, parsed)

parseArgs(av) == ParseFrom(av, 1, DefaultArgs)

----------------------------------------------------------------------------
(* parseFiltersFromArgs                                                    *)

Defined(x) == x.t # "undefined"

\* a flag of parseArgs is either `true` or undefined
Flag(x) == x.t = "boolean"

\* rsiBetween.split(',').map(Number), read as [min, max] by matchesFilters
Between(x) ==
    LET parts == SplitComma(Spelling(x.s))
    IN [min |-> NumberOf(parts[1]),
        max |-> IF Len(parts) >= 2 THEN NumberOf(parts[2]) ELSE Undefined]

NoBetween == [min |-> Undefined, max |-> Undefined]

\* parseInt of a period text gives units; the thresholds are in tenths
parseFiltersFromArgs(a) ==
    [rsi |-> [present |-> Defined(a.rsiBelow) \/ Defined(a.rsiAbove) \/ Defined(a.rsiBetween),
              below |-> a.rsiBelow,
              above |-> a.rsiAbove,
              hasBetween |-> Defined(a.rsiBetween),
              between |-> IF Defined(a.rsiBetween) THEN Between(a.rsiBetween) ELSE NoBetween],
     macd |-> [present |-> Flag(a.macdBullish) \/ Flag(a.macdBearish)
                              \/ Defined(a.macdHistogramPositive),
               bullish |-> Flag(a.macdBullish),
               bearish |-> Flag(a.macdBearish),
               hasHistogramPositive |-> Defined(a.macdHistogramPositive),
               histogramPositive |-> a.macdHistogramPositive = Str("true")],
     ma |-> [present |-> Flag(a.maGoldenCross) \/ Flag(a.maDeathCross)
                            \/ Defined(a.maAbove) \/ Defined(a.maBelow),
             goldenCross |-> Flag(a.maGoldenCross),
             deathCross |-> Flag(a.maDeathCross),
             above |-> IF Defined(a.maAbove) THEN ParseInt(a.maAbove) ELSE Undefined,
             below |-> IF Defined(a.maBelow) THEN ParseInt(a.maBelow) ELSE Undefined],
     bollinger |-> [present |-> Flag(a.bbLower) \/ Flag(a.bbUpper) \/ Flag(a.bdBelowLower)
                                   \/ Flag(a.bbAboveUpper) \/ Flag(a.bbNarrow) \/ Flag(a.bbWide),
                    touchLower |-> Flag(a.bbLower),
                    touchUpper |-> Flag(a.bbUpper),
                    belowLower |-> Flag(a.bdBelowLower),
                    aboveUpper |-> Flag(a.bbAboveUpper),
                    narrow |-> Flag(a.bbNarrow),
                    wide |-> Flag(a.bbWide)],
     price |-> [present |-> Defined(a.priceMin) \/ Defined(a.priceMax),
                min |-> IF Defined(a.priceMin) THEN ParseFloat(a.priceMin) ELSE Undefined,
                max |-> IF Defined(a.priceMax) THEN ParseFloat(a.priceMax) ELSE Undefined]]

\* Object.keys(filters).length === 0
NoFilterKeys(f) ==
    ~(f.rsi.present \/ f.macd.present \/ f.ma.present \/ f.bollinger.present \/ f.price.present)

----------------------------------------------------------------------------
(* Candle series and indicator snapshots                                   *)

\* JavaScript null, as returned by fetchKlines on failure
Null == [kind |-> "null", len |-> 0, snap |-> 0]

\* an exception leaving a function instead of a value
Raise == [kind |-> "raise", len |-> 0, snap |-> 0]

\* a candle array of `len` candles; `snap` names the indicator values its closes give
Klines(len, snap) == [kind |-> "klines", len |-> len, snap |-> snap]

\* the indicator values (in tenths) of the series the exchange can hold
SnapshotOf(snap) ==
    CASE snap = 1 ->
           [rsi |-> 250, histogram |-> -5, ma20 |-> 1010, ma50 |-> 1020, price |-> 1000,
            upper |-> 1100, middle |-> 1000, lower |-> 900,
            goldenCross |-> FALSE, deathCross |-> FALSE,
            macdBullish |-> FALSE, macdBearish |-> FALSE]
      [] snap = 2 ->
           [rsi |-> 200, histogram |-> 5, ma20 |-> 1010, ma50 |-> 1020, price |-> 905,
            upper |-> 1100, middle |-> 1000, lower |-> 900,
            goldenCross |-> FALSE, deathCross |-> FALSE,
            macdBullish |-> TRUE, macdBearish |-> FALSE]
      [] snap = 3 ->
           [rsi |-> 500, histogram |-> 5, ma20 |-> 990, ma50 |-> 980, price |-> 1000,
            upper |-> 1040, middle |-> 1000, lower |-> 960,
            goldenCross |-> FALSE, deathCross |-> FALSE,
            macdBullish |-> FALSE, macdBearish |-> FALSE]
      [] OTHER ->
           [rsi |-> 285, histogram |-> 5, ma20 |-> 1010, ma50 |-> 1000, price |-> 1105,
            upper |-> 1100, middle |-> 1000, lower |-> 900,
            goldenCross |-> TRUE, deathCross |-> FALSE,
            macdBullish |-> TRUE, macdBearish |-> FALSE]

\* the shortest closes array for which no indicator of getLatestIndicators throws:
\* calculateRSI(14) needs 15, calculateMACD(12, 26, 9) needs 35, calculateSMA(50)
\* needs 50, calculateBollingerBands(20) needs 20
IndicatorMinimum == 50

\* getLatestIndicators(closes, highs, lows): throws on a short series
getLatestIndicators(klines) ==
    IF klines.len < IndicatorMinimum
    THEN [ok |-> FALSE, ind |-> SnapshotOf(klines.snap)]
    ELSE [ok |-> TRUE, ind |-> SnapshotOf(klines.snap)]

----------------------------------------------------------------------------
(* matchesFilters and calculateScore                                       *)

\* num / den > p / q in JavaScript arithmetic (q > 0): a zero divisor gives an
\* infinity of the sign of num, and 0 / 0 gives NaN, which compares FALSE
DivGt(num, den, p, q) ==
    CASE den > 0 -> num * q > p * den
      [] den < 0 -> num * q < p * den
      [] OTHER   -> num > 0

\* num / den < p / q in JavaScript arithmetic (q > 0)
DivLt(num, den, p, q) ==
    CASE den > 0 -> num * q < p * den
      [] den < 0 -> num * q > p * den
      [] OTHER   -> num < 0

\* the RSI tests with `>` and `<` in the place of `>=` and `<=`
RsiPassesInclusive(ind, f) ==
    /\ ~(Defined(f.below) /\ JsGt(Num(ind.rsi), f.below))
    /\ ~(Defined(f.above) /\ JsLt(Num(ind.rsi), f.above))
    /\ ~(f.hasBetween /\ (JsLt(Num(ind.rsi), f.between.min) \/ JsGt(Num(ind.rsi), f.between.max)))

RsiPasses(ind, f) ==
    /\ ~(Defined(f.below) /\ JsGe(Num(ind.rsi), f.below))
    /\ ~(Defined(f.above) /\ JsLe(Num(ind.rsi), f.above))
    /\ ~(f.hasBetween /\ (JsLt(Num(ind.rsi), f.between.min) \/ JsGt(Num(ind.rsi), f.between.max)))

MacdPasses(ind, f) ==
    /\ ~(f.bullish /\ ~ind.macdBullish)
    /\ ~(f.bearish /\ ~ind.macdBearish)
    /\ f.hasHistogramPositive =>
          LET isPositive == ind.histogram > 0 IN
          /\ ~(f.histogramPositive /\ ~isPositive)
          /\ ~(~f.histogramPositive /\ isPositive)

\* every period other than 20 is read as 50
MaPassesOtherwiseFifty(ind, f) ==
    /\ ~(f.goldenCross /\ ~ind.goldenCross)
    /\ ~(f.deathCross /\ ~ind.deathCross)
    /\ Defined(f.above) =>
          IF f.above = Num(20) THEN ind.price > ind.ma20 ELSE ind.price > ind.ma50
    /\ Defined(f.below) =>
          IF f.below = Num(20) THEN ind.price < ind.ma20 ELSE ind.price < ind.ma50

MaPasses(ind, f) ==
    /\ ~(f.goldenCross /\ ~ind.goldenCross)
    /\ ~(f.deathCross /\ ~ind.deathCross)
    /\ Defined(f.above) =>
          /\ ~(f.above = Num(20) /\ ind.price <= ind.ma20)
          /\ ~(f.above = Num(50) /\ ind.price <= ind.ma50)
    /\ Defined(f.below) =>
          /\ ~(f.below = Num(20) /\ ind.price >= ind.ma20)
          /\ ~(f.below = Num(50) /\ ind.price >= ind.ma50)

BollingerPasses(ind, f) ==
    /\ ~(f.touchUpper /\ ~(1000 * ind.price >= 995 * ind.upper))
    /\ ~(f.touchLower /\ ~(1000 * ind.price <= 1005 * ind.lower))
    /\ ~(f.belowLower /\ ind.price >= ind.lower)
    /\ ~(f.aboveUpper /\ ind.price <= ind.upper)
    /\ ~(f.narrow /\ DivGt(ind.upper - ind.lower, ind.middle, 1, 10))
    /\ ~(f.wide /\ DivLt(ind.upper - ind.lower, ind.middle, 1, 10))

PricePasses(ind, f) ==
    /\ ~(Defined(f.min) /\ JsLt(Num(ind.price), f.min))
    /\ ~(Defined(f.max) /\ JsGt(Num(ind.price), f.max))

\* `!filters`: the criteria argument is undefined (or null)
Absent(f) == f = Undefined

\* `return false` in the place of the early `return true`
EmptyCriteriaReject(ind) == FALSE

\* `return true; // No filters means everything matches`
EmptyCriteriaResult(ind) == TRUE

matchesFilters(ind, f) ==
    IF Absent(f) \/ NoFilterKeys(f) THEN EmptyCriteriaResult(ind)
    ELSE /\ f.rsi.present => RsiPasses(ind, f.rsi)
         /\ f.macd.present => MacdPasses(ind, f.macd)
         /\ f.ma.present => MaPasses(ind, f.ma)
         /\ f.bollinger.present => BollingerPasses(ind, f.bollinger)
         /\ f.price.present => PricePasses(ind, f.price)

Max(a, b) == IF a > b THEN a ELSE b

\* calculateScore returning `score` itself, without Math.min and Math.max
calculateScoreUnclamped(ind) ==
    LET rsiBonus == IF ind.rsi < 300 THEN 300 - ind.rsi
                    ELSE IF ind.rsi > 700 THEN ind.rsi - 700 ELSE 0
        bullish == IF ind.macdBullish THEN 150 ELSE 0
        golden == IF ind.goldenCross THEN 150 ELSE 0
        bandWidth == ind.upper - ind.lower
        nearLower == IF DivLt(ind.price - ind.lower, bandWidth, 1, 10) THEN 100 ELSE 0
        nearUpper == IF DivGt(ind.price - ind.lower, bandWidth, 9, 10) THEN 100 ELSE 0
    IN 500 + rsiBonus + bullish + golden + nearLower + nearUpper

\* calculateScore, in tenths of a point
calculateScore(ind) ==
    LET rsiBonus == IF ind.rsi < 300 THEN 300 - ind.rsi
                    ELSE IF ind.rsi > 700 THEN ind.rsi - 700 ELSE 0
        bullish == IF ind.macdBullish THEN 150 ELSE 0
        golden == IF ind.goldenCross THEN 150 ELSE 0
        bandWidth == ind.upper - ind.lower
        nearLower == IF DivLt(ind.price - ind.lower, bandWidth, 1, 10) THEN 100 ELSE 0
        nearUpper == IF DivGt(ind.price - ind.lower, bandWidth, 9, 10) THEN 100 ELSE 0
    IN Min(1000, Max(0, 500 + rsiBonus + bullish + golden + nearLower + nearUpper))

----------------------------------------------------------------------------
(* Maps and sorting                                                        *)

\* map.set(key, val) on a Map: a new key is appended, an old key keeps its place
MapSet(m, key, val) ==
    IF \E n \in 1..Len(m) : m[n].key = key
    THEN [n \in 1..Len(m) |-> IF m[n].key = key THEN [key |-> key, val |-> val] ELSE m[n]]
    ELSE Append(m, [key |-> key, val |-> val])

MapKeys(m) == {m[n].key : n \in 1..Len(m)}

MapGet(m, key) == m[CHOOSE n \in 1..Len(m) : m[n].key = key].val

\* the comparator a.rank - b.rank, the mistaken direction
AscendingOrder(a, b) == a.rank - b.rank

\* the comparator (a, b) => b.rank - a.rank: negative when a sorts before b
DescendingOrder(a, b) == b.rank - a.rank

\* the place of a new element in a sorted list: behind every element the
\* comparator does not put after it (Array.prototype.sort is stable)
RECURSIVE InsertDesc(_, _)
InsertDesc(sorted, x) ==
    IF sorted = <<>> THEN <<x>>
    ELSE IF DescendingOrder(Head(sorted), x) <= 0
         THEN <<Head(sorted)>> \o InsertDesc(Tail(sorted), x)
         ELSE <<x>> \o sorted

\* list.sort((a, b) => b.rank - a.rank)
RECURSIVE SortDesc(_)
SortDesc(list) ==
    IF list = <<>> THEN <<>>
    ELSE InsertDesc(SortDesc(SubSeq(list, 1, Len(list) - 1)), list[Len(list)])

\* list.slice(0, n)
Slice(list, n) == SubSeq(list, 1, Min(n, Len(list)))

----------------------------------------------------------------------------
(* The exchange                                                            *)

\* What one HTTP exchange can produce.
\*   throw : fetch() rejects (network error)
\*   notOk : a response with response.ok false
\*   empty : a 200 response whose JSON is an empty array
\*   ok    : a 200 response with the data the exchange holds
FetchOutcomes == {"throw", "notOk", "empty", "ok"}

FailureOutcomes == FetchOutcomes \ {"ok"}

DefaultSeries == Klines(100, 1)

\* the series the exchange can hold for a symbol
SeriesPool == {Klines(100, 1), Klines(100, 2), Klines(100, 3), Klines(99, 2), Klines(49, 2)}

\* the exchange returns at most `limit` candles
SeriesFor(limit) == {x \in SeriesPool : IsNumber(limit) => x.len <= limit.v}

\* quoteVolume values of the 24h tickers
VolumePool == {100, 200}

----------------------------------------------------------------------------
(* fetchKlines and fetchKlinesBatch                                        *)

\* fetchKlines without its catch block: the network error leaves the function
fetchKlinesRethrow(outcome, series) ==
    CASE outcome = "throw" -> Raise
      [] outcome = "notOk" -> Null
      [] outcome = "empty" -> Klines(0, 0)
      [] OTHER             -> series

\* fetchKlines: try { fetch; if (!response.ok) return null; return json } catch { return null }
fetchKlines(outcome, series) ==
    CASE outcome = "throw" -> Null
      [] outcome = "notOk" -> Null
      [] outcome = "empty" -> Klines(0, 0)
      [] OTHER             -> series

\* `klines` alone: an empty array is truthy in JavaScript
StoreTestNoLength(klines) == klines.kind # "null"

\* `klines && klines.length > 0`
StoreTest(klines) == klines.kind # "null" /\ klines.len > 0

\* the rest of the list from i on, without the cap of BATCH_SIZE
BatchUncapped(syms, start) == SubSeq(syms, start + 1, Len(syms))

\* symbols.slice(i, Math.min(i + BATCH_SIZE, symbols.length)), 1-based here
Batch(syms, start) == SubSeq(syms, start + 1, Min(start + BATCH_SIZE, Len(syms)))

CurrentSymbol == Batch(symbols, i)[k + 1]

\* fetches of this run that stored nothing
Failures == processed - Len(results)

\* short lists are explored under every pattern of outcomes, long ones under at most
\* MaxFailures failed fetches, each a network error, and one series
FaultAllowed(outcome) ==
    \/ Len(symbols) <= FullPatternLen
    \/ outcome = "throw" /\ Failures < MaxFailures

PayloadAllowed(series) ==
    \/ Len(symbols) <= FullPatternLen
    \/ series = DefaultSeries

Ev(type, sym, outcome, a, b, data) ==
    [type |-> type, symbol |-> sym, outcome |-> outcome, a |-> a, b |-> b, data |-> data]

\* progressCallback(processed, totalSymbols, symbol) called before processed++
ProgressCallStale(processedNow, total, sym) ==
    Ev("progress", sym, "", processedNow - 1, total, Null)

\* progressCallback(processed, totalSymbols, symbol)
ProgressCall(processedNow, total, sym) ==
    Ev("progress", sym, "", processedNow, total, Null)

\* `i + BATCH_SIZE <= symbols.length`
MoreBatchesInclusive(start, n) == start + BATCH_SIZE <= n

\* `i + BATCH_SIZE < symbols.length`: another batch follows the one starting at `start`
MoreBatches(start, n) == start + BATCH_SIZE < n

\* issue `await fetchKlines(symbol, ...)` for the symbol at (start, idx) of syms
IssueFetch(syms, start, idx, tr, fl) ==
    LET sym == Batch(syms, start)[idx + 1] IN
    /\ i' = start
    /\ k' = idx
    /\ kpc' = "fetching"
    /\ inFlight' = fl \cup {sym}
    /\ netRequests' = netRequests + 1
    /\ trace' = Append(tr, Ev("fetch", sym, "", 0, 0, Null))

\* `return results`
Return(tr, fl) ==
    /\ kpc' = "returned"
    /\ trace' = tr
    /\ inFlight' = fl
    /\ UNCHANGED netRequests

\* the loops from the end of one symbol's iteration to the next await or the return
LoopAdvance(tr, fl) ==
    IF k + 1 < Len(Batch(symbols, i))
    THEN IssueFetch(symbols, i, k + 1, tr, fl)
    ELSE IF MoreBatches(i, Len(symbols))
         THEN /\ kpc' = "batchDelay"
              /\ trace' = Append(tr, Ev("delay", 0, "", BATCH_DELAY, 0, Null))
              /\ inFlight' = fl
              /\ UNCHANGED <<i, k, netRequests>>
         ELSE \* i += BATCH_SIZE fails the loop test i < symbols.length
              /\ Return(tr, fl)
              /\ UNCHANGED <<i, k>>

\* the iteration goes on without awaiting delay(REQUEST_DELAY)
AwaitPacingSkipped(tr, fl) == LoopAdvance(tr, fl)

\* `await delay(REQUEST_DELAY)` at the end of a symbol's iteration
AwaitPacing(tr, fl) ==
    /\ kpc' = "pacing"
    /\ trace' = Append(tr, Ev("delay", 0, "", REQUEST_DELAY, 0, Null))
    /\ inFlight' = fl
    /\ UNCHANGED <<i, k, netRequests>>

\* fetchKlinesBatch(syms, interval, limit, callback) from its entry to its first
\* await, or to its return for an empty list
CallFetchKlinesBatch(syms, callback) ==
    /\ symbols' = syms
    /\ progressCallback' = callback
    /\ results' = <<>>
    /\ processed' = 0
    /\ IF 0 < Len(syms)
       THEN IssueFetch(syms, 0, 0, trace, inFlight)
       ELSE /\ Return(trace, inFlight)
            /\ UNCHANGED <<i, k>>

\* the awaited fetchKlines settles; results.set, processed++, the callback, then
\* delay(REQUEST_DELAY). An exception out of fetchKlines rejects fetchKlinesBatch.
FetchSettle(outcome, series) ==
    /\ kpc = "fetching"
    /\ outcome \in FailureOutcomes => FaultAllowed(outcome)
    /\ outcome = "ok" => PayloadAllowed(series)
    /\ LET sym == CurrentSymbol
           klines == fetchKlines(outcome, series)
           settled == Append(trace, Ev("settle", sym, outcome, 0, 0, series))
           called == IF progressCallback
                     THEN Append(settled, ProgressCall(processed + 1, Len(symbols), sym))
                     ELSE settled
       IN IF klines.kind = "raise"
          THEN /\ kpc' = "rejected"
               /\ trace' = settled
               /\ inFlight' = inFlight \ {sym}
               /\ UNCHANGED <<results, processed, i, k, netRequests>>
          ELSE /\ results' = IF StoreTest(klines) THEN MapSet(results, sym, klines) ELSE results
               /\ processed' = processed + 1
               /\ AwaitPacing(called, inFlight \ {sym})
    /\ UNCHANGED <<symbols, progressCallback>>
    /\ UNCHANGED mainRest
    /\ UNCHANGED tickerVars
    /\ UNCHANGED libVars

\* delay(REQUEST_DELAY) elapses: next symbol of the batch, or the end of the batch
PacingElapsed ==
    /\ kpc = "pacing"
    /\ LoopAdvance(Append(trace, Ev("elapsed", 0, "", REQUEST_DELAY, 0, Null)), inFlight)
    /\ UNCHANGED <<symbols, progressCallback, results, processed>>
    /\ UNCHANGED mainRest
    /\ UNCHANGED tickerVars
    /\ UNCHANGED libVars

\* delay(BATCH_DELAY) elapses: i += BATCH_SIZE, the loop test, and the next batch starts
BatchDelayElapsed ==
    /\ kpc = "batchDelay"
    /\ LET tr == Append(trace, Ev("elapsed", 0, "", BATCH_DELAY, 0, Null)) IN
       IF i + BATCH_SIZE < Len(symbols)
       THEN IssueFetch(symbols, i + BATCH_SIZE, 0, tr, inFlight)
       ELSE /\ Return(tr, inFlight)
            /\ i' = i + BATCH_SIZE
            /\ k' = k
    /\ UNCHANGED <<symbols, progressCallback, results, processed>>
    /\ UNCHANGED mainRest
    /\ UNCHANGED tickerVars
    /\ UNCHANGED libVars

FetchSettles ==
    \E outcome \in FetchOutcomes :
       \E series \in (IF outcome = "ok" THEN SeriesFor(args.limit) ELSE {Null}) :
          FetchSettle(outcome, series)

----------------------------------------------------------------------------
(* fetchTicker24hr and fetchTickerBatch                                    *)

NoTicker == [kind |-> "null", quoteVolume |-> 0]

Ticker(volume) == [kind |-> "ticker", quoteVolume |-> volume]

TickerOutcomes == {"throw", "notOk", "ok"}

\* a ticker stored whatever the exchange answered
fetchTicker24hrNeverNull(outcome, volume) == Ticker(volume)

\* fetchTicker24hr: try { fetch; if (!response.ok) return null; return json } catch { return null }
fetchTicker24hr(outcome, volume) ==
    CASE outcome = "throw" -> NoTicker
      [] outcome = "notOk" -> NoTicker
      [] OTHER             -> Ticker(volume)

\* batch.map(async symbol => ...): every fetch of the batch is issued at once
IssueTickerBatch(syms, start) ==
    LET batch == Batch(syms, start) IN
    /\ ti' = start
    /\ tInFlight' = {batch[n] : n \in 1..Len(batch)}
    /\ tpc' = "fetching"
    /\ netRequests' = netRequests + Len(batch)

\* fetchTickerBatch(syms) from its entry to its first await, or to its return
CallFetchTickerBatch(syms) ==
    /\ tsymbols' = syms
    /\ tickers' = <<>>
    /\ tAnswers' = {}
    /\ IF 0 < Len(syms)
       THEN IssueTickerBatch(syms, 0)
       ELSE /\ tpc' = "returned"
            /\ UNCHANGED <<ti, tInFlight, netRequests>>

\* tickers of this call that failed
TickerFailures == Cardinality({a \in tAnswers : a.outcome # "ok"})

\* the requests of a batch are answered in the order they were issued
InOrder(sym) == \A other \in tInFlight : sym <= other

\* or in the opposite order
InReverse(sym) == \A other \in tInFlight : other <= sym

\* short lists are explored under every order of the answers and every pattern
\* of outcomes and volumes; long ones with each batch answered in the order of
\* its requests or in the opposite order, at most MaxFailures failed fetches, each
\* a network error, and one volume
TickerAnswerAllowed(sym, outcome, volume) ==
    \/ Len(tsymbols) <= FullPatternLen
    \/ /\ LET batch == Batch(tsymbols, ti) IN
             \/ InOrder(sym) /\ batch[Len(batch)] \in tInFlight
             \/ InReverse(sym) /\ batch[1] \in tInFlight
       /\ outcome # "ok" => outcome = "throw" /\ TickerFailures < MaxFailures
       /\ outcome = "ok" => \A v \in VolumePool : volume <= v

\* one fetchTicker24hr of the batch settles; with the last one Promise.all resolves
\* and the loop goes on to delay(BATCH_DELAY) or to the return
TickerSettle(sym, outcome, volume) ==
    /\ tpc = "fetching"
    /\ sym \in tInFlight
    /\ TickerAnswerAllowed(sym, outcome, volume)
    /\ tAnswers' = tAnswers \cup {[symbol |-> sym, outcome |-> outcome, volume |-> volume]}
    /\ LET ticker == fetchTicker24hr(outcome, volume) IN
       tickers' = IF ticker.kind # "null" THEN MapSet(tickers, sym, ticker) ELSE tickers
    /\ tInFlight' = tInFlight \ {sym}
    /\ tpc' = IF tInFlight' # {} THEN "fetching"
              ELSE IF ti + BATCH_SIZE < Len(tsymbols) THEN "batchDelay" ELSE "returned"
    /\ UNCHANGED <<tsymbols, ti>>
    /\ UNCHANGED mainVars
    /\ UNCHANGED batchVars
    /\ UNCHANGED libVars

TickerSettles ==
    \E sym \in tInFlight : \E outcome \in TickerOutcomes :
       \E volume \in (IF outcome = "ok" THEN VolumePool ELSE {0}) :
          TickerSettle(sym, outcome, volume)

\* delay(BATCH_DELAY) elapses: i += BATCH_SIZE and the next batch is issued
TickerBatchDelayElapsed ==
    /\ tpc = "batchDelay"
    /\ IF ti + BATCH_SIZE < Len(tsymbols)
       THEN IssueTickerBatch(tsymbols, ti + BATCH_SIZE)
       ELSE /\ tpc' = "returned"
            /\ ti' = ti + BATCH_SIZE
            /\ UNCHANGED <<tInFlight, netRequests>>
    /\ UNCHANGED <<tsymbols, tickers, tAnswers>>
    /\ UNCHANGED mainRest
    /\ UNCHANGED batchVars
    /\ UNCHANGED libVars

----------------------------------------------------------------------------
(* getAllUSDTPairs                                                         *)

ListingOutcomes == {"throw", "notOk", "ok"}

\* getAllUSDTPairs: the catch block logs and throws again; on success the sorted
\* names of the n pairs the exchange lists
getAllUSDTPairs(outcome, n) ==
    IF outcome = "ok"
    THEN [thrown |-> FALSE, pairs |-> [s \in 1..n |-> s]]
    ELSE [thrown |-> TRUE, pairs |-> <<>>]

----------------------------------------------------------------------------
(* scanSymbols                                                             *)

NoReport == [interval |-> Undefined, results |-> <<>>, totalScanned |-> 0, matchedCount |-> 0]

\* the series length below which scanSymbols skips a symbol
MinCandles == 100

\* a series is skipped only when the indicators could not be computed on it
TooShortForIndicators(klines) == klines.len < IndicatorMinimum

\* `klines.length < 100`
TooShort(klines) == klines.len < MinCandles

\* `break` in the place of `continue`: the loop is left at the first skipped entry
Break(m, n) == Len(m) + 1

\* `continue`: the loop goes on with the entry behind entry n
Continue(m, n) == n + 1

\* the analysis loop over the entries of klinesMap from entry n on: `acc` holds
\* the ScanResults pushed and the value of `scanned` so far
RECURSIVE AnalyseFrom(_, _, _, _)
AnalyseFrom(m, n, filters, acc) ==
    IF n > Len(m) THEN acc
    ELSE LET counted == [acc EXCEPT !.scanned = acc.scanned + 1]
             klines == m[n].val
             got == getLatestIndicators(klines)
         IN IF TooShort(klines)
            THEN AnalyseFrom(m, Continue(m, n), filters, counted)
            ELSE IF ~got.ok
            THEN AnalyseFrom(m, Continue(m, n), filters, counted)
            ELSE IF matchesFilters(got.ind, filters)
            THEN AnalyseFrom(m, n + 1, filters,
                    [counted EXCEPT !.results =
                        Append(counted.results,
                               [symbol |-> m[n].key, price |-> got.ind.price,
                                snap |-> klines.snap, rank |-> calculateScore(got.ind)])])
            ELSE AnalyseFrom(m, n + 1, filters, counted)

\* `args.maxResults > 0 ? results.slice(0, args.maxResults) : results`
Limit(list, maxResults) ==
    IF JsPositive(maxResults) THEN Slice(list, maxResults.v) ELSE list

\* the report with matchedCount taken after the truncation
MakeReportCountsKept(a, done, final) ==
    [interval |-> a.interval,
     results |-> final,
     totalScanned |-> done.scanned,
     matchedCount |-> Len(final)]

\* the report with totalScanned counting only the symbols that matched
MakeReportCountsMatches(a, done, final) ==
    [interval |-> a.interval,
     results |-> final,
     totalScanned |-> Len(done.results),
     matchedCount |-> Len(done.results)]

\* the object scanSymbols returns: `done` is the outcome of the analysis loop,
\* `final` the sorted and truncated results
MakeReport(a, done, final) ==
    [interval |-> a.interval,
     results |-> final,
     totalScanned |-> done.scanned,
     matchedCount |-> Len(done.results)]

\* the part of scanSymbols behind `await fetchKlinesBatch(...)`; the score of a
\* ScanResult is its field `rank`
BuildReport(m, a) ==
    LET done == AnalyseFrom(m, 1, parseFiltersFromArgs(a), [results |-> <<>>, scanned |-> 0])
        sorted == SortDesc(done.results)
    IN MakeReport(a, done, Limit(sorted, a.maxResults))

\* scanSymbols from `const filters = parseFiltersFromArgs(args)` to the await of
\* fetchKlinesBatch, which gets the progress printer as its observer
StartKlines(syms) ==
    /\ spc' = "klines"
    /\ CallFetchKlinesBatch(syms, TRUE)

\* the first `count` symbols of the tickers Map as it was filled, without the sort
TopInMapOrder(m, count) ==
    LET top == Slice(m, count)
    IN [n \in 1..Len(top) |-> top[n].key]

\* the top `count` symbols of the tickers Map by quoteVolume
TopByVolume(m, count) ==
    LET ranked == [n \in 1..Len(m) |-> [symbol |-> m[n].key, rank |-> m[n].val.quoteVolume]]
        top == Slice(SortDesc(ranked), count)
    IN [n \in 1..Len(top) |-> top[n].symbol]

\* getAllUSDTPairs settles: scanSymbols goes on to the tickers or to the candles;
\* a throw rejects scanSymbols, and the catch of main ends the process with exit(1)
ListingSettle(outcome, n) ==
    /\ spc = "listing"
    /\ LET listed == getAllUSDTPairs(outcome, n) IN
       IF listed.thrown
       THEN /\ spc' = "rejected"
            /\ mpc' = "exit1"
            /\ UNCHANGED <<netRequests>>
            /\ UNCHANGED tickerVars
            /\ UNCHANGED batchVars
       ELSE IF JsPositive(args.topVolume)
            THEN /\ spc' = "tickers"
                 /\ CallFetchTickerBatch(listed.pairs)
                 /\ UNCHANGED mpc
                 /\ UNCHANGED batchVars
            ELSE /\ StartKlines(listed.pairs)
                 /\ UNCHANGED mpc
                 /\ UNCHANGED tickerVars
    /\ UNCHANGED <<argv, args, report, emitted>>
    /\ UNCHANGED libVars

ListingSettles ==
    \E outcome \in ListingOutcomes :
       \E n \in (IF outcome = "ok" THEN 0..MaxUniverse ELSE {0}) :
          ListingSettle(outcome, n)

\* fetchTickerBatch has returned: sort by volume, keep the top N, go on to the candles
TickersReturned ==
    /\ spc = "tickers"
    /\ tpc = "returned"
    /\ StartKlines(TopByVolume(tickers, args.topVolume.v))
    /\ UNCHANGED <<argv, mpc, args, report, emitted>>
    /\ UNCHANGED tickerVars
    /\ UNCHANGED libVars

\* fetchKlinesBatch has returned: analyse, sort, truncate, return the report
KlinesReturned ==
    /\ spc = "klines"
    /\ kpc = "returned"
    /\ report' = BuildReport(results, args)
    /\ spc' = "returned"
    /\ UNCHANGED <<argv, mpc, args, netRequests, emitted>>
    /\ UNCHANGED tickerVars
    /\ UNCHANGED batchVars
    /\ UNCHANGED libVars

----------------------------------------------------------------------------
(* main                                                                    *)

\* the three checks of main, in order; "" when the arguments pass
Validate(a) ==
    IF ~(a.interval.t = "string" /\ a.interval.s \in INTERVALS) THEN "interval"
    ELSE IF JsLt(a.limit, Num(50)) \/ JsGt(a.limit, Num(1000)) THEN "limit"
    ELSE IF NoFilterKeys(parseFiltersFromArgs(a)) THEN "filters"
    ELSE ""

\* main from parseArgs to process.exit or to the first request of scanSymbols
MainStart ==
    /\ mpc = "init"
    /\ LET a == parseArgs(argv) IN
       /\ args' = a
       /\ IF a.exit # ""
          THEN /\ mpc' = (IF a.exit = "0" THEN "exit0" ELSE "exit1")
               /\ UNCHANGED <<spc, netRequests>>
          ELSE IF Validate(a) # ""
          THEN /\ mpc' = "exit1"
               /\ UNCHANGED <<spc, netRequests>>
          ELSE /\ mpc' = "scanning"
               /\ spc' = "listing"
               /\ netRequests' = netRequests + 1
    /\ UNCHANGED <<argv, report, emitted>>
    /\ UNCHANGED tickerVars
    /\ UNCHANGED batchVars
    /\ UNCHANGED libVars

\* scanSymbols has returned: main prints the report
MainFinish ==
    /\ mpc = "scanning"
    /\ spc = "returned"
    /\ emitted' = TRUE
    /\ mpc' = "done"
    /\ UNCHANGED <<argv, spc, args, netRequests, report>>
    /\ UNCHANGED tickerVars
    /\ UNCHANGED batchVars
    /\ UNCHANGED libVars

----------------------------------------------------------------------------
(* The command lines tried                                                 *)

FilterOptions ==
    {<<>>, <<"--rsi-below", "30">>, <<"--rsi-below", "abc">>, <<"--macd-bullish">>}

OtherOptions ==
    {<<>>,
     <<"-i", "1h">>, <<"-i", "7h">>, <<"--interval">>,
     <<"-n", "49">>, <<"-n", "50">>, <<"-n", "99">>, <<"-n", "1000">>, <<"-n", "1001">>, <<"-n", "abc">>,
     <<"--max-results", "1">>, <<"--max-results", "2">>,
     <<"--top-volume", "2">>,
     <<"--output-file", "abc">>, <<"--help">>}

CommandLines ==
    {f \o o : f \in FilterOptions, o \in OtherOptions}
       \cup {<<"--rsi-below", "30", "--top-volume", "1", "--max-results", "1">>,
             <<"--ma-above", "25">>, <<"--ma-below", "abc">>}

----------------------------------------------------------------------------
(* Specifications                                                          *)

IdleTicker ==
    /\ tsymbols = <<>>
    /\ tickers = <<>>
    /\ ti = 0
    /\ tpc = "idle"
    /\ tInFlight = {}
    /\ tAnswers = {}

\* no library function is called on its own
NoCall == [fn |-> "none"]

\* the call has not returned yet
NoReturn == [done |-> FALSE]

IdleLibrary ==
    /\ call = NoCall
    /\ ret = NoReturn

IdleBatch ==
    /\ results = <<>>
    /\ processed = 0
    /\ i = 0
    /\ k = 0
    /\ kpc = "idle"
    /\ inFlight = {}
    /\ trace = <<>>

\* a run of the screener
Init ==
    /\ argv \in CommandLines
    /\ mpc = "init"
    /\ spc = "idle"
    /\ args = DefaultArgs
    /\ netRequests = 0
    /\ report = NoReport
    /\ emitted = FALSE
    /\ IdleTicker
    /\ symbols = <<>>
    /\ progressCallback = FALSE
    /\ IdleBatch
    /\ IdleLibrary

\* BatchDelayElapsed and TickerBatchDelayElapsed need more than BATCH_SIZE
\* symbols, which the universe of a run does not hold; BatchDelayElapsed is run
\* by SpecBatch
Next ==
    \/ MainStart
    \/ ListingSettles
    \/ TickerSettles
    \/ TickersReturned
    \/ FetchSettles
    \/ PacingElapsed
    \/ KlinesReturned
    \/ MainFinish

Spec == Init /\ [][Next]_vars

\* list lengths tried: the short ones, and those around a multiple of the batch size
ListLengths ==
    {n \in 0..MaxSymbols : n <= FullPatternLen \/ n % BATCH_SIZE \in {0, 1}}

\* fetchKlinesBatch called on its own with a list of distinct symbols
BatchCall ==
    /\ mpc = "direct"
    /\ kpc = "idle"
    /\ CallFetchKlinesBatch(symbols, progressCallback)
    /\ UNCHANGED mainRest
    /\ UNCHANGED tickerVars
    /\ UNCHANGED libVars

InitBatch ==
    /\ argv = <<>>
    /\ mpc = "direct"
    /\ spc = "idle"
    /\ args = DefaultArgs
    /\ netRequests = 0
    /\ report = NoReport
    /\ emitted = FALSE
    /\ IdleTicker
    /\ \E n \in ListLengths :
          /\ symbols = [s \in 1..n |-> s]
          /\ progressCallback \in (IF n <= FullPatternLen THEN BOOLEAN ELSE {TRUE})
    /\ IdleBatch
    /\ IdleLibrary

NextBatch ==
    \/ BatchCall
    \/ FetchSettles
    \/ PacingElapsed
    \/ BatchDelayElapsed

SpecBatch == InitBatch /\ [][NextBatch]_vars

----------------------------------------------------------------------------
(* Reading the event trace                                                 *)

IsFetch(e) == e.type = "fetch"

IsSettle(e) == e.type = "settle"

IsProgress(e) == e.type = "progress"

IsBatchDelay(e) == e.type = "delay" /\ e.a = BATCH_DELAY

IsPacingElapsed(e) == e.type = "elapsed" /\ e.a = REQUEST_DELAY

Fetches == SelectSeq(trace, IsFetch)

Settles == SelectSeq(trace, IsSettle)

Progresses == SelectSeq(trace, IsProgress)

\* positions of the trace holding an event of a kind
Positions(Test(_)) == {p \in 1..Len(trace) : Test(trace[p])}

\* scanning the trace from position p: no fetch is issued while a pacing delay is
\* still owed (`owed` is set by a settled fetch and cleared by an elapsed pacing delay)
RECURSIVE PacedFrom(_, _)
PacedFrom(p, owed) ==
    IF p > Len(trace) THEN TRUE
    ELSE LET e == trace[p] IN
         CASE IsFetch(e)         -> ~owed /\ PacedFrom(p + 1, owed)
           [] IsSettle(e)        -> PacedFrom(p + 1, TRUE)
           [] IsPacingElapsed(e) -> PacedFrom(p + 1, FALSE)
           [] OTHER              -> PacedFrom(p + 1, owed)

CeilDiv(a, b) == (a + b - 1) \div b

----------------------------------------------------------------------------
(* Properties of fetchKlinesBatch                                          *)

\* C1: every symbol is fetched exactly once, in input order, whatever the fetch
\* outcomes are: the fetches issued so far are always the leading symbols of the
\* list, a failed fetch never rejects the batch, and at the return all N symbols
\* have been fetched.
C1_EverySymbolFetchedOnceInOrder ==
    /\ kpc # "rejected"
    /\ Len(Fetches) <= Len(symbols)
    /\ \A n \in 1..Len(Fetches) : Fetches[n].symbol = symbols[n]
    /\ \A n \in 1..Len(Settles) :
          Settles[n].outcome \in FailureOutcomes /\ n < Len(symbols)
             => (kpc = "returned" => Len(Fetches) > n)
    /\ kpc = "returned" => Len(Fetches) = Len(symbols)

\* a returned run of at least two symbols in which a fetch before the last one
\* ended in a network error
C1_Witness ==
    /\ kpc = "returned"
    /\ Len(symbols) >= 2
    /\ \E n \in 1..(Len(Settles) - 1) : Settles[n].outcome = "throw"

\* C2: at the return the map holds exactly the symbols whose fetch succeeded with
\* a non-empty payload, each with the series returned for it.
C2_MapHoldsExactlyTheSuccesses ==
    kpc = "returned" =>
       /\ Len(Settles) = Len(symbols)
       /\ \A n \in 1..Len(symbols) :
             LET sym == symbols[n] IN
             /\ Settles[n].symbol = sym
             /\ sym \in MapKeys(results)
                   <=> (Settles[n].outcome = "ok" /\ Settles[n].data.len > 0)
             /\ sym \in MapKeys(results) => MapGet(results, sym) = Settles[n].data
       /\ MapKeys(results) \subseteq {symbols[n] : n \in 1..Len(symbols)}
       /\ Cardinality(MapKeys(results)) = Len(results)

\* a returned run of three symbols: a success, an empty payload and a fetch that
\* came back null (a network error or a non-success response)
C2_Witness ==
    /\ kpc = "returned"
    /\ Len(symbols) = 3
    /\ \E n \in 1..3 : Settles[n].outcome = "ok" /\ symbols[n] \in MapKeys(results)
    /\ \E n \in 1..3 : Settles[n].outcome = "empty"
    /\ \E n \in 1..3 : Settles[n].outcome \in {"throw", "notOk"}

\* C3: with an observer, it is called once per symbol, after that symbol's fetch
\* settled and before the next fetch is issued, with (n, N, symbol) for the n-th
\* symbol.
C3_ProgressOncePerSymbolInOrder ==
    progressCallback =>
       /\ Len(Progresses) = Len(Settles)
       /\ \A n \in 1..Len(Progresses) :
             /\ Progresses[n].symbol = symbols[n]
             /\ Progresses[n].a = n
             /\ Progresses[n].b = Len(symbols)
       /\ \A p \in 1..Len(trace) :
             /\ IsSettle(trace[p]) =>
                   /\ p < Len(trace)
                   /\ IsProgress(trace[p + 1])
                   /\ trace[p + 1].symbol = trace[p].symbol
             /\ IsProgress(trace[p]) => p > 1 /\ IsSettle(trace[p - 1])
       /\ kpc = "returned" => Len(Progresses) = Len(symbols)

\* a returned run with an observer over more than one batch, one fetch having failed
C3_Witness ==
    /\ progressCallback
    /\ kpc = "returned"
    /\ Len(symbols) > BATCH_SIZE
    /\ \E n \in 1..Len(Settles) : Settles[n].outcome # "ok"

\* C4 as stated: at the return the number of inter-batch delays is ceil(N/B) - 1.
C4_DelaysAreCeilMinusOne ==
    kpc = "returned" =>
       Cardinality(Positions(IsBatchDelay)) = CeilDiv(Len(symbols), BATCH_SIZE) - 1

\* C4 amended: at the return the number of inter-batch delays is ceil(N/B) - 1 for
\* N >= 1 and 0 for N = 0, and every inter-batch delay is followed by a fetch (none
\* is issued after the final batch).
C4_DelaysBetweenBatchesOnly ==
    /\ kpc = "returned" =>
          Cardinality(Positions(IsBatchDelay)) =
             (IF Len(symbols) = 0 THEN 0 ELSE CeilDiv(Len(symbols), BATCH_SIZE) - 1)
    /\ kpc = "returned" =>
          \A p \in Positions(IsBatchDelay) : \E q \in Positions(IsFetch) : q > p
    /\ kpc = "batchDelay" => Len(Fetches) < Len(symbols)

\* a returned run of exactly two full batches: one inter-batch delay
C4_Witness ==
    /\ kpc = "returned"
    /\ Len(symbols) = 2 * BATCH_SIZE
    /\ Cardinality(Positions(IsBatchDelay)) = 1

\* C5: at most one candle fetch is in flight, and a fetch other than the first is
\* issued only after a pacing delay has elapsed since the previous fetch settled.
C5_OneInFlightAndPaced ==
    /\ Cardinality(inFlight) <= 1
    /\ kpc = "fetching" <=> Cardinality(inFlight) = 1
    /\ PacedFrom(1, FALSE)

\* the second fetch of a run is in flight
C5_Witness ==
    /\ kpc = "fetching"
    /\ Len(Fetches) = 2
    /\ Cardinality(inFlight) = 1

----------------------------------------------------------------------------
(* Properties of the screener run                                          *)

\* the arguments main works on
Parsed == parseArgs(argv)

BadInterval(a) == ~(a.interval.t = "string" /\ a.interval.s \in INTERVALS)

\* the candle count is not a number in 50..1000
BadLimit(a) == ~(IsNumber(a.limit) /\ a.limit.v >= 50 /\ a.limit.v <= 1000)

\* a filter value that was given but is no number
Unparseable(x) == Defined(x) /\ ~IsNumber(x)

\* no filter at all, or a filter whose value cannot be parsed
BadFilters(a) ==
    LET f == parseFiltersFromArgs(a) IN
    \/ NoFilterKeys(f)
    \/ Unparseable(f.rsi.below) \/ Unparseable(f.rsi.above)
    \/ (f.rsi.hasBetween /\ ~(IsNumber(f.rsi.between.min) /\ IsNumber(f.rsi.between.max)))
    \/ Unparseable(f.ma.above) \/ Unparseable(f.ma.below)
    \/ Unparseable(f.price.min) \/ Unparseable(f.price.max)

IsRun == mpc # "direct" /\ Parsed.exit = ""

\* C6: a command line with a malformed interval, a candle count that is no number
\* in 50..1000, or empty or unparseable filter criteria is aborted with a fatal
\* error before any network request.
C6_InvalidArgumentsAbortBeforeNetwork ==
    (IsRun /\ (BadInterval(Parsed) \/ BadLimit(Parsed) \/ BadFilters(Parsed)))
       => (netRequests = 0 /\ mpc \in {"init", "exit1"})

\* the fetches whose series reached the klines Map, as indices of Settles
Fetched == {n \in 1..Len(Settles) : Settles[n].outcome = "ok" /\ Settles[n].data.len > 0}

\* among them, those long enough for the analysis whose snapshot matches the filters
Matching ==
    {n \in Fetched :
        /\ Settles[n].data.len >= MinCandles
        /\ matchesFilters(SnapshotOf(Settles[n].data.snap), parseFiltersFromArgs(args))}

ScoreOf(n) == calculateScore(SnapshotOf(Settles[n].data.snap))

ReportBuilt == spc = "returned"

\* the run waits for a request or a timer that is outstanding, or for the
\* continuation of a call that has returned
CanGoOn ==
    \/ mpc = "init"
    \/ spc = "listing"
    \/ spc = "tickers" /\ (tpc = "returned" \/ (tpc = "fetching" /\ tInFlight # {}))
    \/ spc = "klines" /\ (kpc \in {"pacing", "returned"} \/ (kpc = "fetching" /\ inFlight # {}))
    \/ spc = "returned"

\* C7 as stated: a run ends with a fatal error only before any network request.
C7_FatalOnlyBeforeNetwork ==
    mpc = "exit1" => netRequests = 0

\* C7 amended: a run ends in a printed report, or in a fatal error before any
\* network request, or in a fatal error because listing the universe failed (the
\* one request of the run); a failed ticker or candle fetch never ends the run, and
\* a run that has not ended can always go on.
C7_CompletesOrFailsEarlyOrOnListing ==
    /\ mpc = "exit1" => (netRequests = 0 \/ (netRequests = 1 /\ spc = "rejected"))
    /\ spc = "rejected" => (tpc = "idle" /\ kpc = "idle")
    /\ mpc = "done" => (emitted /\ ReportBuilt)
    /\ mpc = "exit0" => (Parsed.exit = "0" /\ netRequests = 0)
    /\ mpc \in {"init", "scanning"} => CanGoOn
    /\ kpc # "rejected"

\* a run that printed its report although a ticker fetch and a candle fetch failed
C7_Witness ==
    /\ mpc = "done"
    /\ emitted
    /\ Len(tickers) < Len(tsymbols)
    /\ \E n \in 1..Len(Settles) : Settles[n].outcome \in FailureOutcomes

\* C8: totalScanned is the number of symbols whose series was retrieved: it counts
\* the series skipped as too short and not the symbols whose fetch failed.
C8_TotalScannedCountsFetchedSeries ==
    ReportBuilt => report.totalScanned = Cardinality(Fetched)

\* three symbols, one fetch failed, one series too short: totalScanned is 2
C8_Witness ==
    /\ ReportBuilt
    /\ Len(symbols) = 3
    /\ Settles[2].outcome # "ok"
    /\ Settles[1].outcome = "ok" /\ Settles[3].outcome = "ok"
    /\ Settles[3].data.len < MinCandles
    /\ report.totalScanned = 2

\* C9: matchedCount is the number of matching series, whatever maxResults is; the
\* results are min(matchedCount, maxResults) many when maxResults > 0 and
\* matchedCount many otherwise; matchedCount <= totalScanned.
C9_MatchedCountBeforeTruncation ==
    ReportBuilt =>
       /\ report.matchedCount = Cardinality(Matching)
       /\ Len(report.results) =
             (IF IsNumber(args.maxResults) /\ args.maxResults.v > 0
              THEN Min(report.matchedCount, args.maxResults.v)
              ELSE report.matchedCount)
       /\ report.matchedCount <= report.totalScanned

\* two matches of which --max-results 1 keeps one
C9_Witness ==
    /\ ReportBuilt
    /\ args.maxResults = Num(1)
    /\ report.matchedCount = 2
    /\ Len(report.results) = 1

\* C10: the results are ordered by score descending, they are matching symbols
\* without repetition, and a truncation keeps no result with a lower score than a
\* result it drops.
C10_ResultsByScoreDescending ==
    ReportBuilt =>
       LET res == report.results
           kept == {res[n].symbol : n \in 1..Len(res)}
       IN /\ \A n \in 1..(Len(res) - 1) : res[n].rank >= res[n + 1].rank
          /\ Cardinality(kept) = Len(res)
          /\ \A n \in 1..Len(res) :
                \E m \in Matching : symbols[m] = res[n].symbol /\ ScoreOf(m) = res[n].rank
          /\ \A m \in Matching :
                symbols[m] \notin kept => \A n \in 1..Len(res) : res[n].rank >= ScoreOf(m)

\* --max-results 1 keeps the second match fetched, whose score is the higher one
C10_Witness ==
    /\ ReportBuilt
    /\ args.maxResults = Num(1)
    /\ report.matchedCount = 2
    /\ Len(report.results) = 1
    /\ \E m, n \in Matching :
          /\ m < n
          /\ symbols[n] = report.results[1].symbol
          /\ ScoreOf(m) < ScoreOf(n)

\* C11: a result is reported only for a fetched series whose snapshot was computed
\* and satisfies the filters; a series that is skipped (too short, or its
\* indicators cannot be computed) leaves the others alone: every other fetched
\* series is analysed and counted as a match when its snapshot matches.
C11_SkippedSeriesLeaveTheOthersAlone ==
    ReportBuilt =>
       LET filters == parseFiltersFromArgs(args)
           reported == {n \in Fetched :
                          LET got == getLatestIndicators(Settles[n].data) IN
                          /\ Settles[n].data.len >= MinCandles
                          /\ got.ok
                          /\ matchesFilters(got.ind, filters)}
           res == report.results
       IN /\ \A r \in 1..Len(res) : \E n \in reported : Settles[n].symbol = res[r].symbol
          /\ report.matchedCount = Cardinality(reported)
          /\ ~JsPositive(args.maxResults) =>
                \A n \in reported : \E r \in 1..Len(res) : res[r].symbol = Settles[n].symbol

\* three series fetched: the first too short for its indicators to be computed,
\* the second computed and not matching, the third matching and reported
C11_Witness ==
    /\ ReportBuilt
    /\ Len(symbols) = 3
    /\ Fetched = {1, 2, 3}
    /\ ~getLatestIndicators(Settles[1].data).ok
    /\ ~matchesFilters(getLatestIndicators(Settles[2].data).ind, parseFiltersFromArgs(args))
    /\ Settles[2].data.len >= MinCandles
    /\ report.matchedCount = 1
    /\ Len(report.results) = 1
    /\ report.results[1].symbol = Settles[3].symbol
    /\ report.totalScanned = 3

----------------------------------------------------------------------------
(* matchesFilters and calculateScore called on their own                   *)

\* RSI values of the snapshots tried, in tenths
RsiPool == {0, 285, 300, 500, 700, 750}

HistogramPool == {-5, 0, 5}

\* prices around the bands and the averages below
SnapshotPricePool == {895, 900, 904, 1000, 1095, 1105}

\* <<upper, middle, lower>>: a wide band, a band of bandwidth 0.1, a collapsed band
BandPool == {<<1100, 1000, 900>>, <<1050, 1000, 950>>, <<1000, 1000, 1000>>}

\* <<goldenCross, deathCross, macdBullish, macdBearish>>
FlagPool ==
    {<<FALSE, FALSE, FALSE, FALSE>>, <<TRUE, FALSE, TRUE, FALSE>>, <<FALSE, TRUE, FALSE, TRUE>>,
     <<TRUE, FALSE, FALSE, FALSE>>, <<FALSE, FALSE, TRUE, FALSE>>}

\* the objects getLatestIndicators can return, flattened
SnapshotPool ==
    {[rsi |-> r, histogram |-> h, ma20 |-> 1000, ma50 |-> 900, price |-> p,
      upper |-> b[1], middle |-> b[2], lower |-> b[3],
      goldenCross |-> c[1], deathCross |-> c[2], macdBullish |-> c[3], macdBearish |-> c[4]] :
        r \in RsiPool, h \in HistogramPool, p \in SnapshotPricePool, b \in BandPool, c \in FlagPool}

\* the criteria object without a key: {}
EmptyCriteria == parseFiltersFromArgs(DefaultArgs)

Categories == {"rsi", "macd", "ma", "bollinger", "price"}

RsiCriteria(below, above, between) ==
    [EmptyCriteria EXCEPT !.rsi = [present |-> TRUE, below |-> below, above |-> above,
                                   hasBetween |-> between # NoBetween, between |-> between]]

MacdCriteria(bullish, bearish, hasHistogram, histogramPositive) ==
    [EmptyCriteria EXCEPT !.macd = [present |-> TRUE, bullish |-> bullish, bearish |-> bearish,
                                    hasHistogramPositive |-> hasHistogram,
                                    histogramPositive |-> histogramPositive]]

MaCriteria(golden, death, above, below) ==
    [EmptyCriteria EXCEPT !.ma = [present |-> TRUE, goldenCross |-> golden, deathCross |-> death,
                                  above |-> above, below |-> below]]

BollingerCriteria(name) ==
    [EmptyCriteria EXCEPT !.bollinger = [present |-> TRUE,
                                         touchLower |-> name = "touchLower",
                                         touchUpper |-> name = "touchUpper",
                                         belowLower |-> name = "belowLower",
                                         aboveUpper |-> name = "aboveUpper",
                                         narrow |-> name = "narrow",
                                         wide |-> name = "wide"]]

PriceCriteria(min, max) ==
    [EmptyCriteria EXCEPT !.price = [present |-> TRUE, min |-> min, max |-> max]]

\* the criteria holding the categories of both
Both(a, b) == [c \in Categories |-> IF b[c].present THEN b[c] ELSE a[c]]

\* criteria of one category
SingleCriteria ==
    {RsiCriteria(Num(300), Undefined, NoBetween),
     RsiCriteria(Undefined, Num(700), NoBetween),
     RsiCriteria(Undefined, Undefined, [min |-> Num(300), max |-> Num(700)]),
     RsiCriteria(Num(500), Num(285), NoBetween),
     MacdCriteria(TRUE, FALSE, FALSE, FALSE),
     MacdCriteria(FALSE, TRUE, FALSE, FALSE),
     MacdCriteria(FALSE, FALSE, TRUE, TRUE),
     MacdCriteria(FALSE, FALSE, TRUE, FALSE),
     MaCriteria(TRUE, FALSE, Undefined, Undefined),
     MaCriteria(FALSE, TRUE, Undefined, Undefined),
     MaCriteria(FALSE, FALSE, Num(20), Undefined),
     MaCriteria(FALSE, FALSE, Num(50), Undefined),
     MaCriteria(FALSE, FALSE, Undefined, Num(20)),
     MaCriteria(FALSE, FALSE, Undefined, Num(50)),
     PriceCriteria(Num(900), Undefined),
     PriceCriteria(Undefined, Num(1000)),
     PriceCriteria(Num(900), Num(1000))}
       \cup {BollingerCriteria(name) :
                name \in {"touchLower", "touchUpper", "belowLower", "aboveUpper", "narrow", "wide"}}

\* undefined, {}, the criteria of one category and some of several categories
CriteriaPool ==
    {Undefined, EmptyCriteria} \cup SingleCriteria
       \cup {Both(RsiCriteria(Num(300), Undefined, NoBetween), MacdCriteria(TRUE, FALSE, FALSE, FALSE)),
             Both(Both(MaCriteria(TRUE, FALSE, Undefined, Undefined), BollingerCriteria("wide")),
                  PriceCriteria(Num(900), Undefined)),
             Both(BollingerCriteria("narrow"), BollingerCriteria("wide"))}

FilterCalls ==
    {[fn |-> "matchesFilters", ind |-> ind, f |-> f] : ind \in SnapshotPool, f \in CriteriaPool}
       \cup {[fn |-> "calculateScore", ind |-> ind, f |-> Undefined] : ind \in SnapshotPool}

\* nothing of the screener runs
NoRun ==
    /\ argv = <<>>
    /\ mpc = "library"
    /\ spc = "idle"
    /\ args = DefaultArgs
    /\ netRequests = 0
    /\ report = NoReport
    /\ emitted = FALSE
    /\ IdleTicker
    /\ symbols = <<>>
    /\ progressCallback = FALSE
    /\ IdleBatch

InitFilters ==
    /\ NoRun
    /\ call \in FilterCalls
    /\ ret = NoReturn

CallMatchesFilters ==
    /\ call.fn = "matchesFilters"
    /\ ~ret.done
    /\ ret' = [done |-> TRUE, value |-> matchesFilters(call.ind, call.f)]
    /\ UNCHANGED <<call>>
    /\ UNCHANGED mainVars
    /\ UNCHANGED tickerVars
    /\ UNCHANGED batchVars

CallCalculateScore ==
    /\ call.fn = "calculateScore"
    /\ ~ret.done
    /\ ret' = [done |-> TRUE, value |-> calculateScore(call.ind)]
    /\ UNCHANGED <<call>>
    /\ UNCHANGED mainVars
    /\ UNCHANGED tickerVars
    /\ UNCHANGED batchVars

NextFilters ==
    \/ CallMatchesFilters
    \/ CallCalculateScore

SpecFilters == InitFilters /\ [][NextFilters]_vars

Returned(fn) == call.fn = fn /\ ret.done

\* C12: matchesFilters returns true for every snapshot when the criteria are
\* absent (undefined) or empty ({}).
C12_NoCriteriaMatchEverything ==
    (Returned("matchesFilters") /\ (call.f = Undefined \/ call.f = EmptyCriteria))
       => ret.value = TRUE

\* matchesFilters has returned true for undefined criteria
C12_Witness ==
    /\ Returned("matchesFilters")
    /\ call.f = Undefined
    /\ call.ind.rsi = 500 /\ call.ind.price = 895 /\ ~call.ind.goldenCross
    /\ ret.value = TRUE

\* the match condition of each criterion, as the table of the filter evaluator
\* states it: thresholds and snapshot values in tenths, bandwidth =
\* (upper - lower) / middle with middle > 0
TableHolds(ind, f) ==
    /\ Defined(f.rsi.below) => ind.rsi < f.rsi.below.v
    /\ Defined(f.rsi.above) => ind.rsi > f.rsi.above.v
    /\ f.rsi.hasBetween => (f.rsi.between.min.v <= ind.rsi /\ ind.rsi <= f.rsi.between.max.v)
    /\ f.macd.bullish => ind.macdBullish
    /\ f.macd.bearish => ind.macdBearish
    /\ f.macd.hasHistogramPositive => ((ind.histogram > 0) = f.macd.histogramPositive)
    /\ f.ma.goldenCross => ind.goldenCross
    /\ f.ma.deathCross => ind.deathCross
    /\ f.ma.above = Num(20) => ind.price > ind.ma20
    /\ f.ma.above = Num(50) => ind.price > ind.ma50
    /\ f.ma.below = Num(20) => ind.price < ind.ma20
    /\ f.ma.below = Num(50) => ind.price < ind.ma50
    /\ f.bollinger.touchUpper => 1000 * ind.price >= 995 * ind.upper
    /\ f.bollinger.touchLower => 1000 * ind.price <= 1005 * ind.lower
    /\ f.bollinger.belowLower => ind.price < ind.lower
    /\ f.bollinger.aboveUpper => ind.price > ind.upper
    /\ f.bollinger.narrow => 10 * (ind.upper - ind.lower) <= ind.middle
    /\ f.bollinger.wide => 10 * (ind.upper - ind.lower) >= ind.middle
    /\ Defined(f.price.min) => ind.price >= f.price.min.v
    /\ Defined(f.price.max) => ind.price <= f.price.max.v

\* C13: for every snapshot and every criteria object, matchesFilters returns true
\* exactly when the table's condition holds for every criterion that is present.
C13_MatchesIsTheConjunctionOfTheTable ==
    (Returned("matchesFilters") /\ call.f # Undefined)
       => (ret.value <=> TableHolds(call.ind, call.f))

\* rsi = 30.0 under {rsi: {below: 30}}: no match, the inequality being strict
C13_Witness ==
    /\ Returned("matchesFilters")
    /\ call.f = RsiCriteria(Num(300), Undefined, NoBetween)
    /\ call.ind.rsi = 300
    /\ ret.value = FALSE

\* the value the scorer's formula gives, in tenths: 50 + the RSI bonus + 15 for
\* macdBullish + 15 for goldenCross + 10 for position < 0.1 + 10 for position > 0.9,
\* clamped to [0, 100]; position = (price - lower) / (upper - lower)
ScoreFormula(ind) ==
    LET rsiBonus == CASE ind.rsi < 300 -> 300 - ind.rsi
                      [] ind.rsi > 700 -> ind.rsi - 700
                      [] OTHER         -> 0
        flag(b, points) == IF b THEN points ELSE 0
        width == ind.upper - ind.lower
        raw == 500 + rsiBonus + flag(ind.macdBullish, 150) + flag(ind.goldenCross, 150)
                   + flag(DivLt(ind.price - ind.lower, width, 1, 10), 100)
                   + flag(DivGt(ind.price - ind.lower, width, 9, 10), 100)
    IN IF raw > 1000 THEN 1000 ELSE IF raw < 0 THEN 0 ELSE raw

\* C14: calculateScore returns the formula's value, which lies in [0, 100].
C14_ScoreIsTheClampedSum ==
    Returned("calculateScore") =>
       /\ ret.value = ScoreFormula(call.ind)
       /\ 0 <= ret.value /\ ret.value <= 1000

\* bonuses that stack to 120 before the clamp: rsi 0, both crosses, price at the
\* lower band
C14_Witness ==
    /\ Returned("calculateScore")
    /\ call.ind.rsi = 0
    /\ call.ind.macdBullish /\ call.ind.goldenCross
    /\ call.ind.price = 900 /\ call.ind.lower = 900 /\ call.ind.upper = 1100
    /\ ret.value = 1000

----------------------------------------------------------------------------
(* Number arithmetic of the indicator functions                            *)
(*                                                                         *)
(* A JavaScript number is a binary floating-point value: a significand of  *)
(* 53 bits times a power of two, every operation rounded to the nearest    *)
(* such value, ties to the even significand. The model keeps this          *)
(* arithmetic with a significand of Precision bits. A value is the record  *)
(* [m, e] standing for m * 2^e, m odd, or [0, 0] for zero. Infinities, NaN *)
(* and the exponent range are left out: no indicator divides by zero.      *)

\* bits of the significand
Precision == 5

Abs(n) == IF n < 0 THEN -n ELSE n

Sign(n) == IF n < 0 THEN -1 ELSE 1

\* widest integer the arithmetic below builds, in bits
MaxBits == 30

Pow2(n) == 2 ^ n

\* number of bits of a >= 0
BitLength(a) == Cardinality({b \in 0..(MaxBits - 1) : Pow2(b) <= a})

\* number of factors of two of m # 0
TrailingZeros(m) == Cardinality({b \in 1..(MaxBits - 1) : m % Pow2(b) = 0})

\* m * 2^e with the factors of two moved from m into the exponent
Canon(m, e) ==
    IF m = 0 THEN [m |-> 0, e |-> 0]
    ELSE [m |-> m \div Pow2(TrailingZeros(m)), e |-> e + TrailingZeros(m)]

\* the floating-point value nearest to big * 2^e, ties to even
Round(big, e) ==
    LET a == Abs(big) IN
    IF a < Pow2(Precision) THEN Canon(big, e)
    ELSE LET sh == BitLength(a) - Precision
             q == a \div Pow2(sh)
             r == a % Pow2(sh)
             half == Pow2(sh - 1)
             up == r > half \/ (r = half /\ q % 2 = 1)
         IN Canon(Sign(big) * (IF up THEN q + 1 ELSE q), e + sh)

\* a number literal or an integer variable used as a number
FromInt(n) == Round(n, 0)

Zero == FromInt(0)

\* the integers x * 2^-em and y * 2^-em for the smaller exponent em of the two
Aligned(x, y) ==
    LET em == Min(x.e, y.e)
    IN [x |-> x.m * Pow2(x.e - em), y |-> y.m * Pow2(y.e - em), e |-> em]

\* x + y; a zero operand leaves the other one as it is
FAdd(x, y) ==
    IF x.m = 0 THEN y
    ELSE IF y.m = 0 THEN x
    ELSE LET a == Aligned(x, y) IN Round(a.x + a.y, a.e)

\* x - y
FSub(x, y) ==
    IF y.m = 0 THEN x
    ELSE IF x.m = 0 THEN [m |-> -y.m, e |-> y.e]
    ELSE LET a == Aligned(x, y) IN Round(a.x - a.y, a.e)

\* x * y
FMul(x, y) ==
    IF x.m = 0 \/ y.m = 0 THEN Zero
    ELSE Round(x.m * y.m, x.e + y.e)

\* a shift for which n * 2^shift / d has more than Precision + 1 bits
QuotientShift(n, d) == Max(0, Precision + 2 - BitLength(n) + BitLength(d))

\* x / y for y # 0: the quotient to Precision + 2 bits, a remainder kept as one
\* more low bit, then rounded
FDiv(x, y) ==
    IF x.m = 0 THEN Zero
    ELSE IF Abs(y.m) = 1 THEN [m |-> x.m * y.m, e |-> x.e - y.e]
    ELSE LET n == Abs(x.m)
             d == Abs(y.m)
             sg == Sign(x.m) * Sign(y.m)
             sh == QuotientShift(n, d)
             q == (n * Pow2(sh)) \div d
             r == (n * Pow2(sh)) % d
         IN IF r = 0 THEN Round(sg * q, x.e - y.e - sh)
            ELSE Round(sg * (2 * q + 1), x.e - y.e - sh - 1)

\* the integer square root of n, found bit by bit from the bit `bit` down
RECURSIVE RootBits(_, _, _)
RootBits(n, root, bit) ==
    IF bit = 0 THEN root
    ELSE LET try == root + bit
         IN RootBits(n, IF try * try <= n THEN try ELSE root, bit \div 2)

IntegerRoot(n) == RootBits(n, 0, Pow2(BitLength(n) \div 2 + 1))

\* Math.sqrt(x) for x >= 0, rounded like a quotient
FSqrt(x) ==
    IF x.m = 0 THEN Zero
    ELSE LET m == IF x.e % 2 = 0 THEN x.m ELSE 2 * x.m
             e == IF x.e % 2 = 0 THEN x.e ELSE x.e - 1
             sh == Precision + 1
             n == m * Pow2(2 * sh)
             root == IntegerRoot(n)
         IN IF root * root = n THEN Round(root, (e \div 2) - sh)
            ELSE Round(2 * root + 1, (e \div 2) - sh - 1)

\* x < y, x <= y: comparisons are exact
FLt(x, y) == LET a == Aligned(x, y) IN a.x < a.y

FLe(x, y) == LET a == Aligned(x, y) IN a.x <= a.y

\* Math.abs(x)
FAbs(x) == [m |-> Abs(x.m), e |-> x.e]

\* the accumulator of values.reduce((a, b) => a + b, 0): its initial value,
\* then its value after each element
RECURSIVE Accumulated(_, _)
Accumulated(values, sums) ==
    IF Len(sums) > Len(values) THEN sums
    ELSE Accumulated(values, Append(sums, FAdd(sums[Len(sums)], values[Len(sums)])))

\* values.reduce((a, b) => a + b, 0)
Reduce(values) == Accumulated(values, <<Zero>>)[Len(values) + 1]

----------------------------------------------------------------------------
(* The indicator functions of lib/indicators.js                            *)
(*                                                                         *)
(* A function returns Values(..) or a record of sequences with ok = TRUE,  *)
(* or Thrown(name) for `throw new Error("Not enough data for <name> ...")`.*)
(* Sequences are 1-based: the element i of the source is element i + 1.    *)

Values(v) == [ok |-> TRUE, values |-> v]

Thrown(name) == [ok |-> FALSE, error |-> name]

\* 100 - (100 / (1 + rs)), or 100 when avgLoss === 0
RsiValue(avgGain, avgLoss) ==
    IF avgLoss = Zero THEN FromInt(100)
    ELSE LET rs == FDiv(avgGain, avgLoss)
         IN FSub(FromInt(100), FDiv(FromInt(100), FAdd(FromInt(1), rs)))

\* the loop of Wilder's smoothing from the change idx on
RECURSIVE WilderFrom(_, _, _, _, _, _, _)
WilderFrom(gains, losses, period, idx, avgGain, avgLoss, rsiValues) ==
    IF idx > Len(gains) THEN rsiValues
    ELSE LET nextGain == FDiv(FAdd(FMul(avgGain, FromInt(period - 1)), gains[idx]), FromInt(period))
             nextLoss == FDiv(FAdd(FMul(avgLoss, FromInt(period - 1)), losses[idx]), FromInt(period))
         IN WilderFrom(gains, losses, period, idx + 1, nextGain, nextLoss,
                       Append(rsiValues, RsiValue(nextGain, nextLoss)))

calculateRSI(closes, period) ==
    IF Len(closes) < period + 1 THEN Thrown("RSI")
    ELSE LET changes == [j \in 1..(Len(closes) - 1) |-> FSub(closes[j + 1], closes[j])]
             gains == [j \in 1..Len(changes) |->
                          IF FLt(Zero, changes[j]) THEN changes[j] ELSE Zero]
             losses == [j \in 1..Len(changes) |->
                           IF FLt(changes[j], Zero) THEN FAbs(changes[j]) ELSE Zero]
             avgGain == FDiv(Reduce(SubSeq(gains, 1, period)), FromInt(period))
             avgLoss == FDiv(Reduce(SubSeq(losses, 1, period)), FromInt(period))
         IN Values(WilderFrom(gains, losses, period, period + 1, avgGain, avgLoss,
                              <<RsiValue(avgGain, avgLoss)>>))

calculateSMA(prices, period) ==
    IF Len(prices) < period THEN Thrown("SMA")
    ELSE Values([j \in 1..(Len(prices) - period + 1) |->
                    FDiv(Reduce(SubSeq(prices, j, j + period - 1)), FromInt(period))])

\* a seed that is the first price instead of the first average
EmaSeedFirstPrice(prices, period) == prices[1]

\* firstSMA
EmaSeed(prices, period) == FDiv(Reduce(SubSeq(prices, 1, period)), FromInt(period))

\* the loop of calculateEMA from the price idx on
RECURSIVE EmaFrom(_, _, _, _)
EmaFrom(prices, idx, multiplier, emaValues) ==
    IF idx > Len(prices) THEN emaValues
    ELSE LET last == emaValues[Len(emaValues)]
         IN EmaFrom(prices, idx + 1, multiplier,
                    Append(emaValues, FAdd(FMul(FSub(prices[idx], last), multiplier), last)))

calculateEMA(prices, period) ==
    IF Len(prices) < period THEN Thrown("EMA")
    ELSE LET multiplier == FDiv(FromInt(2), FromInt(period + 1))
         IN Values(EmaFrom(prices, period + 1, multiplier, <<EmaSeed(prices, period)>>))

\* a minimum that only asks for a signal line of one full window
MacdMinimumOfTheLine(slow, signal) == slow + signal - 1

\* the number of closes calculateMACD asks for
MacdMinimum(slow, signal) == slow + signal

\* no shift between the two averages
MacdOffsetNone(fast, slow) == 0

\* offset
MacdOffset(fast, slow) == slow - fast

\* fast < slow is taken for granted by the source: fastEMA[i + offset] is read
\* without a test
calculateMACD(closes, fast, slow, signal) ==
    IF Len(closes) < MacdMinimum(slow, signal) THEN Thrown("MACD")
    ELSE LET fastEMA == calculateEMA(closes, fast)
             slowEMA == calculateEMA(closes, slow)
         IN IF ~fastEMA.ok THEN fastEMA
            ELSE IF ~slowEMA.ok THEN slowEMA
            ELSE LET offset == MacdOffset(fast, slow)
                     macdLine == [j \in 1..Len(slowEMA.values) |->
                                     FSub(fastEMA.values[j + offset], slowEMA.values[j])]
                     signalLine == calculateEMA(macdLine, signal)
                 IN IF ~signalLine.ok THEN signalLine
                    ELSE LET signalOffset == Len(macdLine) - Len(signalLine.values)
                         IN [ok |-> TRUE,
                             macdLine |-> macdLine,
                             signalLine |-> signalLine.values,
                             histogram |-> [j \in 1..Len(signalLine.values) |->
                                 FSub(macdLine[j + signalOffset], signalLine.values[j])]]

\* Math.sqrt(variance) of the window that starts at j
StdDeviation(prices, period, j, mean) ==
    LET slice == SubSeq(prices, j, j + period - 1)
        squaredDiffs == [n \in 1..Len(slice) |->
                            FMul(FSub(slice[n], mean), FSub(slice[n], mean))]
        variance == FDiv(Reduce(squaredDiffs), FromInt(period))
    IN FSqrt(variance)

calculateBollingerBands(prices, period, stdDev) ==
    IF Len(prices) < period THEN Thrown("Bollinger Bands")
    ELSE LET middle == calculateSMA(prices, period).values
             deviation == [j \in 1..Len(middle) |->
                              FMul(FromInt(stdDev), StdDeviation(prices, period, j, middle[j]))]
         IN [ok |-> TRUE,
             upper |-> [j \in 1..Len(middle) |-> FAdd(middle[j], deviation[j])],
             middle |-> middle,
             lower |-> [j \in 1..Len(middle) |-> FSub(middle[j], deviation[j])]]

isGoldenCross(maFast, maSlow) ==
    IF Len(maFast) < 2 \/ Len(maSlow) < 2 THEN FALSE
    ELSE LET fastPrev == maFast[Len(maFast) - 1]
             fastCurr == maFast[Len(maFast)]
             slowPrev == maSlow[Len(maSlow) - 1]
             slowCurr == maSlow[Len(maSlow)]
         IN FLe(fastPrev, slowPrev) /\ FLt(slowCurr, fastCurr)

\* a death cross that compares the previous fast value with the current slow one
isDeathCrossStale(maFast, maSlow) ==
    IF Len(maFast) < 2 \/ Len(maSlow) < 2 THEN FALSE
    ELSE LET fastPrev == maFast[Len(maFast) - 1]
             slowPrev == maSlow[Len(maSlow) - 1]
             slowCurr == maSlow[Len(maSlow)]
         IN FLe(slowPrev, fastPrev) /\ FLt(fastPrev, slowCurr)

isDeathCross(maFast, maSlow) ==
    IF Len(maFast) < 2 \/ Len(maSlow) < 2 THEN FALSE
    ELSE LET fastPrev == maFast[Len(maFast) - 1]
             fastCurr == maFast[Len(maFast)]
             slowPrev == maSlow[Len(maSlow) - 1]
             slowCurr == maSlow[Len(maSlow)]
         IN FLe(slowPrev, fastPrev) /\ FLt(fastCurr, slowCurr)

----------------------------------------------------------------------------
(* The indicator functions called on their own                             *)

\* longest price sequence drawn from PricePool
MaxLen == 4

\* prices: two neighbours, one far above them, one whose averages round
PricePool == {FromInt(1), FromInt(2), FromInt(13), FromInt(128)}

ShortSeries == UNION {[1..n -> PricePool] : n \in 0..MaxLen}

FlatSeries(len, price) == [j \in 1..len |-> price]

\* flat sequences: around the minimum lengths of the default parameters, and
\* one window of a price whose average rounds with one more bit as well
FlatSamples ==
    {FlatSeries(n, FromInt(1)) : n \in {14, 15, 19, 20, 34, 35}}
       \cup {FlatSeries(3, FromInt(25))}

PriceSeries == ShortSeries \cup FlatSamples

\* periods: small ones, and the defaults of RSI (14) and of the bands (20)
Periods == {1, 2, 3, 14, 20}

\* <<fast, slow, signal>> with fast < slow; the last one is the default
MacdParams == {<<1, 2, 1>>, <<1, 2, 2>>, <<2, 3, 1>>, <<12, 26, 9>>}

\* the multiplier getLatestIndicators passes to calculateBollingerBands
BandWidth == 2

\* values of the moving averages handed to the cross detectors
CrossPool == {FromInt(1), FromInt(2), FromInt(13)}

CrossSeries == UNION {[1..n -> CrossPool] : n \in 0..(MaxLen - 1)}

PeriodCall(fn, prices, period) ==
    [fn |-> fn, prices |-> prices, maSlow |-> <<>>, period |-> period,
     fast |-> 0, slow |-> 0, signal |-> 0]

IndicatorCalls ==
    {PeriodCall(fn, prices, period) :
        fn \in {"calculateRSI", "calculateSMA", "calculateEMA", "calculateBollingerBands"},
        prices \in PriceSeries, period \in Periods}
       \cup {[fn |-> "calculateMACD", prices |-> prices, maSlow |-> <<>>, period |-> 0,
              fast |-> p[1], slow |-> p[2], signal |-> p[3]] :
                 prices \in PriceSeries, p \in MacdParams}
       \cup {[fn |-> "crosses", prices |-> maFast, maSlow |-> maSlow, period |-> 0,
              fast |-> 0, slow |-> 0, signal |-> 0] :
                 maFast \in CrossSeries, maSlow \in CrossSeries}

InitIndicators ==
    /\ NoRun
    /\ call \in IndicatorCalls
    /\ ret = NoReturn

\* the call returns or throws `value`
LibraryReturn(value) ==
    /\ ~ret.done
    /\ ret' = [done |-> TRUE, value |-> value]
    /\ UNCHANGED <<call>>
    /\ UNCHANGED mainVars
    /\ UNCHANGED tickerVars
    /\ UNCHANGED batchVars

CallRSI ==
    /\ call.fn = "calculateRSI"
    /\ LibraryReturn(calculateRSI(call.prices, call.period))

CallSMA ==
    /\ call.fn = "calculateSMA"
    /\ LibraryReturn(calculateSMA(call.prices, call.period))

CallEMA ==
    /\ call.fn = "calculateEMA"
    /\ LibraryReturn(calculateEMA(call.prices, call.period))

CallMACD ==
    /\ call.fn = "calculateMACD"
    /\ LibraryReturn(calculateMACD(call.prices, call.fast, call.slow, call.signal))

CallBollingerBands ==
    /\ call.fn = "calculateBollingerBands"
    /\ LibraryReturn(calculateBollingerBands(call.prices, call.period, BandWidth))

\* isGoldenCross and isDeathCross on the same pair of averages
CallCrosses ==
    /\ call.fn = "crosses"
    /\ LibraryReturn([goldenCross |-> isGoldenCross(call.prices, call.maSlow),
               deathCross |-> isDeathCross(call.prices, call.maSlow)])

NextIndicators ==
    \/ CallRSI
    \/ CallSMA
    \/ CallEMA
    \/ CallMACD
    \/ CallBollingerBands
    \/ CallCrosses

SpecIndicators == InitIndicators /\ [][NextIndicators]_vars

\* the losses among the first `period` deltas of the call are all zero
NoLossInFirstWindow ==
    \A j \in 1..call.period : ~FLt(call.prices[j + 1], call.prices[j])

\* C15: every value calculateRSI returns lies in [0, 100], and the first
\* one is 100 if and only if no delta among the first `period` ones is a loss.
C15_RsiRangeAndHundredIffNoLoss ==
    (Returned("calculateRSI") /\ ret.value.ok) =>
        /\ \A j \in 1..Len(ret.value.values) :
              FLe(Zero, ret.value.values[j]) /\ FLe(ret.value.values[j], FromInt(100))
        /\ (ret.value.values[1] = FromInt(100)) <=> NoLossInFirstWindow

\* C16: for a sequence of at least `period` values, the first value of
\* calculateEMA is the first value of calculateSMA on the same arguments, and
\* both results have len(values) - period + 1 values.
C16_EmaStartsAtTheSma ==
    (ret.done /\ call.fn \in {"calculateEMA", "calculateSMA"}
              /\ Len(call.prices) >= call.period) =>
        LET sma == calculateSMA(call.prices, call.period)
        IN /\ ret.value.ok
           /\ sma.ok
           /\ Len(ret.value.values) = Len(call.prices) - call.period + 1
           /\ Len(sma.values) = Len(call.prices) - call.period + 1
           /\ call.fn = "calculateEMA" => ret.value.values[1] = sma.values[1]

\* calculateEMA has returned several values for a window of several prices
\* whose average is none of them
C16_Witness ==
    /\ Returned("calculateEMA")
    /\ call.period = 3
    /\ Len(call.prices) = MaxLen
    /\ ret.value.ok
    /\ \A j \in 1..call.period : ret.value.values[1] # call.prices[j]

\* the value of calculateEMA(prices, period) that belongs to the input
\* position pos: the value j of the result belongs to position j + period - 1
EmaAt(prices, period, pos) == calculateEMA(prices, period).values[pos - period + 1]

\* C17: for closes calculateMACD accepts, histogram[i] = macdLine[i + offset] -
\* signalLine[i] for every index i of signalLine, with offset = len(macdLine) -
\* len(signalLine), and macdLine[i] is the fast EMA minus the slow EMA at the
\* same input position.
C17_MacdLinesAreAligned ==
    (Returned("calculateMACD") /\ ret.value.ok) =>
        LET macdLine == ret.value.macdLine
            signalLine == ret.value.signalLine
            histogram == ret.value.histogram
            offset == Len(macdLine) - Len(signalLine)
        IN /\ Len(histogram) = Len(signalLine)
           /\ \A j \in 1..Len(signalLine) :
                 histogram[j] = FSub(macdLine[j + offset], signalLine[j])
           /\ Len(macdLine) = Len(call.prices) - call.slow + 1
           /\ \A j \in 1..Len(macdLine) :
                 LET pos == j + call.slow - 1
                 IN macdLine[j] = FSub(EmaAt(call.prices, call.fast, pos),
                                       EmaAt(call.prices, call.slow, pos))

\* calculateMACD has returned a signal line shorter than its MACD line, and the
\* two averages of some position differ
C17_Witness ==
    /\ Returned("calculateMACD")
    /\ ret.value.ok
    /\ Len(ret.value.signalLine) >= 2
    /\ Len(ret.value.signalLine) < Len(ret.value.macdLine)
    /\ \E j \in 1..Len(ret.value.histogram) : ret.value.histogram[j] # Zero
    /\ ret.value.macdLine[1] # Zero
    /\ EmaAt(call.prices, call.fast, call.slow) # EmaAt(call.prices, call.fast, call.fast)

\* the least number of values the called function is specified to accept
StatedMinimum ==
    CASE call.fn = "calculateRSI" -> call.period + 1
      [] call.fn \in {"calculateSMA", "calculateEMA", "calculateBollingerBands"} -> call.period
      [] call.fn = "calculateMACD" -> call.slow + call.signal

\* the error the called function throws on its own
OwnError ==
    CASE call.fn = "calculateRSI" -> "RSI"
      [] call.fn = "calculateSMA" -> "SMA"
      [] call.fn = "calculateEMA" -> "EMA"
      [] call.fn = "calculateBollingerBands" -> "Bollinger Bands"
      [] call.fn = "calculateMACD" -> "MACD"

\* C18: an indicator function throws its not-enough-data error exactly when
\* its input is shorter than its minimum, and returns otherwise: period + 1
\* values for calculateRSI, period for calculateSMA, calculateEMA and
\* calculateBollingerBands, slow + signal for calculateMACD.
C18_ThrowsExactlyBelowTheMinimum ==
    (ret.done /\ call.fn # "crosses") =>
        IF Len(call.prices) < StatedMinimum
        THEN ret.value = Thrown(OwnError)
        ELSE ret.value.ok

\* calculateMACD(closes, 12, 26, 9) has thrown on 34 closes
C18_Witness ==
    /\ Returned("calculateMACD")
    /\ call.fast = 12 /\ call.slow = 26 /\ call.signal = 9
    /\ Len(call.prices) = 34
    /\ ret.value = Thrown("MACD")

\* the window j of the call holds one price only
FlatWindow(j) ==
    \A n \in j..(j + call.period - 1) : call.prices[n] = call.prices[j]

\* C19: in every window of calculateBollingerBands lower <= middle <= upper,
\* strictly when the prices of the window are not all the same, and lower =
\* middle = upper when they are; the bands lie stdDev population deviations
\* (squared deviations summed and divided by period) from the middle.
C19_BandsAreOrderedAndCollapse ==
    (Returned("calculateBollingerBands") /\ ret.value.ok) =>
        \A j \in 1..Len(ret.value.middle) :
            LET lower == ret.value.lower[j]
                middle == ret.value.middle[j]
                upper == ret.value.upper[j]
                width == FMul(FromInt(BandWidth),
                              StdDeviation(call.prices, call.period, j, middle))
            IN /\ FLe(lower, middle) /\ FLe(middle, upper)
               /\ ~FlatWindow(j) => (FLt(lower, middle) /\ FLt(middle, upper))
               /\ FlatWindow(j) => (lower = middle /\ middle = upper)
               /\ upper = FAdd(middle, width) /\ lower = FSub(middle, width)

\* C20: isGoldenCross and isDeathCross are never both true for the same pair
\* of sequences.
C20_CrossesExcludeEachOther ==
    Returned("crosses") => ~(ret.value.goldenCross /\ ret.value.deathCross)

\* the detectors have looked at a pair whose previous values are equal, where
\* the first test of both holds, and have reported a golden cross
C20_Witness ==
    /\ Returned("crosses")
    /\ Len(call.prices) >= 2 /\ Len(call.maSlow) >= 2
    /\ call.prices[Len(call.prices) - 1] = call.maSlow[Len(call.maSlow) - 1]
    /\ ret.value.goldenCross
    /\ ~ret.value.deathCross

----------------------------------------------------------------------------
(* fetchKlinesBatch when every fetch and every delay completes             *)

\* the call is made, an awaited fetch settles, a timer set by delay() fires
FairBatch ==
    /\ WF_vars(BatchCall)
    /\ WF_vars(FetchSettles)
    /\ WF_vars(PacingElapsed)
    /\ WF_vars(BatchDelayElapsed)

SpecBatchFair == SpecBatch /\ FairBatch

\* C21: whatever the symbol list and the fetch outcomes are, fetchKlinesBatch
\* eventually returns, given that every fetch and every delay completes.
C21_BatchEventuallyReturns == <>(kpc = "returned")

\* the run over three symbols has returned with the first and the third stored
\* and the second one failed
C21_Witness ==
    /\ kpc = "returned"
    /\ Len(symbols) = 3
    /\ MapKeys(results) = {symbols[1], symbols[3]}
    /\ Settles[2].outcome \in {"throw", "notOk"}

----------------------------------------------------------------------------
(* binance-ticker.js: the symbol a command asks the exchange for           *)

\* a symbol is the sequence of its characters
LowerChars == <<"b", "c", "d", "e", "h", "s", "t", "u">>

UpperChars == <<"B", "C", "D", "E", "H", "S", "T", "U">>

\* toUpperCase on one character: a lower-case letter becomes its capital
UpperChar(c) ==
    IF \E n \in 1..Len(LowerChars) : LowerChars[n] = c
    THEN UpperChars[CHOOSE n \in 1..Len(LowerChars) : LowerChars[n] = c]
    ELSE c

toUpperCase(text) == [n \in 1..Len(text) |-> UpperChar(text[n])]

\* String.prototype.includes: sub occurs somewhere in text
includes(text, sub) ==
    \E at \in 1..(Len(text) - Len(sub) + 1) : SubSeq(text, at, at + Len(sub) - 1) = sub

USDT == <<"U", "S", "D", "T">>

BUSD == <<"B", "U", "S", "D">>

USDC == <<"U", "S", "D", "C">>

\* `normalizedSymbol` of getTickerPrice and getKlines, `upper` or
\* `upper + 'USDT'` of getMultiplePrices
normalizedSymbol(symbol) ==
    LET upper == toUpperCase(symbol)
    IN IF ~includes(upper, USDT) /\ ~includes(upper, BUSD) /\ ~includes(upper, USDC)
       THEN upper \o USDT
       ELSE upper

----------------------------------------------------------------------------
(* The ticker commands called on their own                                 *)

MaxSymbolLen == 4

SymbolLetters == {"B", "C", "D", "S", "T", "U", "t", "u"}

\* every symbol of 1..MaxSymbolLen letters
ShortSymbols == UNION {[1..n -> SymbolLetters] : n \in 1..MaxSymbolLen}

\* pairs and assets as they are typed
TypedSymbols ==
    {<<"B", "T", "C">>, <<"b", "t", "c">>, <<"E", "T", "H">>,
     <<"B", "T", "C">> \o USDT, <<"b", "t", "c", "u", "s", "d", "t">>,
     <<"E", "T", "H">> \o BUSD, <<"B", "T", "C">> \o USDC,
     <<"E", "T", "H", "B", "T", "C">>, USDT \o <<"B", "T", "C">>,
     USDC \o USDT, USDT, BUSD, USDC}

TickerCalls ==
    {[fn |-> "getTickerPrice", symbol |-> s] : s \in ShortSymbols \cup TypedSymbols}
       \cup {[fn |-> "getKlines", symbol |-> s] : s \in TypedSymbols}
       \cup {[fn |-> "getMultiplePrices", symbols |-> <<s1, s2>>] :
                s1 \in TypedSymbols, s2 \in TypedSymbols}

InitSymbol ==
    /\ NoRun
    /\ call \in TickerCalls
    /\ ret = NoReturn

\* getTickerPrice up to its request: the symbol of the request URL
CallGetTickerPrice ==
    /\ call.fn = "getTickerPrice"
    /\ LibraryReturn(normalizedSymbol(call.symbol))

\* getKlines up to its request: the symbol of the request URL
CallGetKlines ==
    /\ call.fn = "getKlines"
    /\ LibraryReturn(normalizedSymbol(call.symbol))

\* getMultiplePrices up to its requests: `normalizedSymbols`
CallGetMultiplePrices ==
    /\ call.fn = "getMultiplePrices"
    /\ LibraryReturn([n \in 1..Len(call.symbols) |-> normalizedSymbol(call.symbols[n])])

NextSymbol ==
    \/ CallGetTickerPrice
    \/ CallGetKlines
    \/ CallGetMultiplePrices

SpecSymbol == InitSymbol /\ [][NextSymbol]_vars

\* the quote currencies the ticker knows
QuoteCurrencies == {USDT, BUSD, USDC}

EndsWith(text, sub) ==
    /\ Len(sub) <= Len(text)
    /\ SubSeq(text, Len(text) - Len(sub) + 1, Len(text)) = sub

\* the symbol names a pair: an asset followed by a quote currency
SpecifiesQuote(text) ==
    \E q \in QuoteCurrencies : EndsWith(text, q) /\ Len(text) > Len(q)

\* the requested symbol is the typed one, in capitals, with USDT appended
\* exactly when the typed one names no quote currency
NormalizedAsDocumented(typed, requested) ==
    LET upper == toUpperCase(typed)
    IN /\ requested = (IF SpecifiesQuote(upper) THEN upper ELSE upper \o USDT)
       /\ normalizedSymbol(requested) = requested

\* C22: the ticker appends USDT to a symbol exactly when the symbol specifies
\* no quote currency: a symbol that ends in a quote currency is requested
\* unchanged (in capitals), and normalising a normalised symbol changes nothing.
C22_AppendsExactlyWithoutQuote ==
    /\ Returned("getTickerPrice") => NormalizedAsDocumented(call.symbol, ret.value)
    /\ Returned("getKlines") => NormalizedAsDocumented(call.symbol, ret.value)
    /\ Returned("getMultiplePrices") =>
          \A n \in 1..Len(call.symbols) : NormalizedAsDocumented(call.symbols[n], ret.value[n])

\* what does hold: a symbol that ends in USDT, BUSD or USDC is requested
\* unchanged, and normalising twice is normalising once
C22_PairsKeptAndIdempotent ==
    Returned("getTickerPrice") =>
        /\ SpecifiesQuote(toUpperCase(call.symbol)) => ret.value = toUpperCase(call.symbol)
        /\ normalizedSymbol(ret.value) = ret.value
        /\ ret.value \in {toUpperCase(call.symbol), toUpperCase(call.symbol) \o USDT}

\* the asset USDC typed on its own is requested as `USDC`
C22_LoneQuoteWitness ==
    /\ Returned("getTickerPrice")
    /\ call.symbol = USDC
    /\ ret.value = USDC

----------------------------------------------------------------------------
(* The batches of fetchKlinesBatch                                         *)

\* the ends of the stretches of the trace: its start, every inter-batch delay
\* and its end
StretchEnds ==
    {0, Len(trace) + 1} \cup {p \in 1..Len(trace) : IsBatchDelay(trace[p])}

\* a and b are the two ends of one stretch
Consecutive(a, b) ==
    /\ a \in StretchEnds
    /\ b \in StretchEnds
    /\ a < b
    /\ \A c \in StretchEnds : ~(a < c /\ c < b)

FetchesWithin(a, b) == Cardinality({p \in (a + 1)..(b - 1) : IsFetch(trace[p])})

\* C23: between two consecutive inter-batch delays, before the first and after the
\* last, at most BATCH_SIZE candle fetches are issued, and every batch but the
\* last one issues exactly BATCH_SIZE fetches.
C23_BatchesOfBatchSize ==
    \A a \in StretchEnds, b \in StretchEnds :
       Consecutive(a, b) =>
          /\ FetchesWithin(a, b) <= BATCH_SIZE
          /\ b <= Len(trace) => FetchesWithin(a, b) = BATCH_SIZE

\* a returned run of two full batches and a last batch of one symbol
C23_Witness ==
    /\ kpc = "returned"
    /\ Len(symbols) = 2 * BATCH_SIZE + 1
    /\ Cardinality(StretchEnds) = 4
    /\ \E a \in StretchEnds :
          /\ Consecutive(a, Len(trace) + 1)
          /\ FetchesWithin(a, Len(trace) + 1) = 1

----------------------------------------------------------------------------
(* The volume selection of scanSymbols                                     *)

\* the pairs the exchange listed
Universe == {tsymbols[n] : n \in 1..Len(tsymbols)}

\* the symbols handed to fetchKlinesBatch
Scanned == {symbols[n] : n \in 1..Len(symbols)}

\* the symbols whose ticker request the exchange answered with a ticker
Succeeded == {a.symbol : a \in {b \in tAnswers : b.outcome = "ok"}}

AnsweredVolume(sym) == (CHOOSE a \in tAnswers : a.symbol = sym).volume

\* the run took the branch `args.topVolume > 0` and went on to the candles
VolumeSelected == JsPositive(args.topVolume) /\ spc \in {"klines", "returned"}

\* C24: with topVolume = K > 0 the symbols handed to fetchKlinesBatch are distinct
\* symbols of the universe, min(K, number of successful ticker fetches) of them,
\* all with a successful ticker fetch and with the K highest quote volumes among
\* the successes; a symbol whose ticker fetch failed is never scanned.
C24_TopVolumeSelection ==
    VolumeSelected =>
       /\ Scanned \subseteq Universe
       /\ Scanned \subseteq Succeeded
       /\ Cardinality(Scanned) = Len(symbols)
       /\ Len(symbols) = Min(args.topVolume.v, Cardinality(Succeeded))
       /\ \A s \in Scanned : \A t \in Succeeded \ Scanned :
             AnsweredVolume(s) >= AnsweredVolume(t)
       /\ \A n \in 1..Len(Fetches) : Fetches[n].symbol \in Succeeded

\* a finished run over three pairs with K = 1: one ticker fetch failed, the
\* larger of the two volumes was answered last and its symbol alone was scanned
C24_Witness ==
    /\ VolumeSelected
    /\ spc = "returned"
    /\ args.topVolume.v = 1
    /\ Cardinality(Universe) = 3
    /\ Cardinality(Succeeded) = 2
    /\ Len(Fetches) = 1
    /\ symbols[1] = tickers[2].key
    /\ tickers[1].val.quoteVolume < tickers[2].val.quoteVolume

----------------------------------------------------------------------------
(* fetchTickerBatch called on its own                                      *)

TickerCall ==
    /\ mpc = "direct"
    /\ tpc = "idle"
    /\ CallFetchTickerBatch(tsymbols)
    /\ UNCHANGED mainRest
    /\ UNCHANGED batchVars
    /\ UNCHANGED libVars

InitTicker ==
    /\ argv = <<>>
    /\ mpc = "direct"
    /\ spc = "idle"
    /\ args = DefaultArgs
    /\ netRequests = 0
    /\ report = NoReport
    /\ emitted = FALSE
    /\ \E n \in ListLengths : tsymbols = [s \in 1..n |-> s]
    /\ tickers = <<>>
    /\ ti = 0
    /\ tpc = "idle"
    /\ tInFlight = {}
    /\ tAnswers = {}
    /\ symbols = <<>>
    /\ progressCallback = FALSE
    /\ IdleBatch
    /\ IdleLibrary

NextTicker ==
    \/ TickerCall
    \/ TickerSettles
    \/ TickerBatchDelayElapsed

SpecTicker == InitTicker /\ [][NextTicker]_vars

\* the symbols whose ticker request has been answered
Answered == {a.symbol : a \in tAnswers}

\* the requests in flight belong to the current batch, every request of an
\* earlier batch has been answered, and nothing is in flight during the delay
OneBatchAtATime ==
    /\ Cardinality(tInFlight) <= BATCH_SIZE
    /\ LET batch == Batch(tsymbols, ti) IN
       tInFlight \subseteq {batch[n] : n \in 1..Len(batch)}
    /\ tpc \in {"fetching", "batchDelay"} =>
          \A n \in 1..Len(tsymbols) : n <= ti => tsymbols[n] \in Answered
    /\ tpc \in {"batchDelay", "returned"} => tInFlight = {}

\* the call has returned with every request answered and a Map that holds the
\* answered ticker of each success and nothing else, one entry per symbol
ReturnsTheSuccesses ==
    tpc = "returned" =>
       /\ Answered = Universe
       /\ MapKeys(tickers) = Succeeded
       /\ Len(tickers) = Cardinality(Succeeded)
       /\ \A s \in Succeeded : MapGet(tickers, s) = Ticker(AnsweredVolume(s))

\* a step that issues requests starts from the call or from an elapsed delay,
\* with nothing in flight
IssuesAfterTheDelay ==
    tInFlight' \ tInFlight # {} => tInFlight = {} /\ tpc \in {"idle", "batchDelay"}

\* C25: whatever the order of the answers, at most BATCH_SIZE ticker fetches are
\* in flight, no fetch of a batch starts before every fetch of the batch before
\* it has completed and the delay between them has elapsed, a failed fetch rejects
\* nothing, and the returned map holds exactly the successes: it is determined by
\* the answers, not by their order.
C25_TickerBatches ==
    /\ [](OneBatchAtATime /\ ReturnsTheSuccesses)
    /\ [][IssuesAfterTheDelay]_vars

\* a returned call over two full batches and one more symbol: the first batch
\* was answered in the opposite order, and one fetch failed
C25_Witness ==
    /\ tpc = "returned"
    /\ Len(tsymbols) = 2 * BATCH_SIZE + 1
    /\ TickerFailures = 1
    /\ Len(tickers) = 2 * BATCH_SIZE
    /\ tickers[1].key > tickers[2].key

----------------------------------------------------------------------------
(* Series of fewer than 100 candles                                        *)

\* the entries of klinesMap long enough to be analysed
LongEnough == {n \in 1..Len(results) : results[n].val.len >= MinCandles}

\* the run asked for 50 to 99 candles
FewCandlesAsked == IsNumber(args.limit) /\ args.limit.v \in 50..(MinCandles - 1)

\* C26: a fetched series of fewer than 100 candles is never analysed: it yields no
\* ScanResult and is still counted in totalScanned; a run that asks for 50 to 99
\* candles passes the validation and reports no result and matchedCount = 0,
\* whatever the filters.
C26_ShortSeriesNeverAnalysed ==
    spc = "returned" =>
       /\ report.totalScanned = Len(results)
       /\ \A n \in 1..Len(results) :
             results[n].val.len < MinCandles =>
                \A r \in 1..Len(report.results) : report.results[r].symbol # results[n].key
       /\ report.matchedCount <= Cardinality(LongEnough)
       /\ FewCandlesAsked => report.results = <<>> /\ report.matchedCount = 0

\* a finished run with -n 99 whose two series of 99 candles satisfy the filters
\* and are counted, with nothing reported
C26_Witness ==
    /\ spc = "returned"
    /\ args.limit = Num(99)
    /\ Len(results) = 2
    /\ \A n \in 1..2 :
          /\ results[n].val.len = 99
          /\ matchesFilters(SnapshotOf(results[n].val.snap), parseFiltersFromArgs(args))
    /\ report.totalScanned = 2
    /\ report.matchedCount = 0

----------------------------------------------------------------------------
(* Moving-average periods other than 20 and 50                             *)

KnownPeriods == {Num(20), Num(50)}

\* the only criterion is ma.above or ma.below with a period that is neither 20 nor
\* 50, NaN included
OnlyUnknownPeriod(f) ==
    /\ f.ma.present
    /\ ~(f.rsi.present \/ f.macd.present \/ f.bollinger.present \/ f.price.present)
    /\ ~f.ma.goldenCross /\ ~f.ma.deathCross
    /\ Defined(f.ma.above) \/ Defined(f.ma.below)
    /\ f.ma.above \notin KnownPeriods
    /\ f.ma.below \notin KnownPeriods

\* C27: an ma.above or ma.below criterion whose period is neither 20 nor 50, an
\* unparseable one included, constrains nothing: every analysed series matches;
\* parseFiltersFromArgs still returns a non-empty criteria object, so main does
\* not reject the run for want of a filter.
C27_UnknownPeriodConstrainsNothing ==
    LET f == parseFiltersFromArgs(args) IN
    (mpc # "init" /\ OnlyUnknownPeriod(f)) =>
       /\ ~NoFilterKeys(f)
       /\ spc # "idle"
       /\ \A n \in 1..Len(results) : matchesFilters(SnapshotOf(results[n].val.snap), f)
       /\ spc = "returned" => report.matchedCount = Cardinality(LongEnough)

\* a finished run with --ma-above 25 that reports a symbol whose price is below
\* both moving averages
C27_Witness ==
    /\ spc = "returned"
    /\ args.maAbove = Str("25")
    /\ \E r \in 1..Len(report.results) :
          LET ind == SnapshotOf(report.results[r].snap)
          IN ind.price <= ind.ma20 /\ ind.price <= ind.ma50

====
